---------------------------- MODULE Spec2Model ----------------------------
(***************************************************************************)
(* Model of the multilang-tools file reconciliation engine: the error-code *)
(* organizer (src/src/commands/errorCode/fileOrganize.ts and its earlier   *)
(* semantic variant), the translation parsers and diff, the batch          *)
(* translator and the backup manager.                                      *)
(*                                                                         *)
(* A file is a sequence of lines (content.split('\n')).  A line is a       *)
(* record whose kind is the outcome of the tests the parsers apply to the  *)
(* trimmed text; its text is a sequence of words, and a code line carries  *)
(* its code as a sequence of decimal digits.                               *)
(***************************************************************************)
EXTENDS Integers, Sequences, FiniteSets, Bags, TLC

VARIABLES
  \* the error-code organizers
  content,    \* the error-code source file, as its lines
  original,   \* the content the last organize read
  runs,       \* number of organize calls so far
  \* the organize-target diff
  sourceKeyValues,   \* key/value pairs read from the source file
  targetKeyValues,   \* key/value pairs read from a target file
  missingKeyList,    \* the missing keys the diff reported
  redundantKeyList,  \* the redundant keys the diff reported
  diffBy,            \* which diff produced them
  \* the translation parsers
  sourceObject,         \* the object the source locale file spells out
  targetObject,         \* the object a target locale file spells out
  sourceText,           \* the source locale file, as its tokens
  targetText,           \* the target locale file, as its tokens
  sourceTranslations,   \* the entries parsed from the source file
  missingTranslations,  \* the entries found missing from the target
  parsedBy,             \* which parseTranslations read the two files
  \* translateFile of the error-code batch translator
  sourceFile,           \* the source error-code file on disk
  targetFile,           \* the target error-code file on disk
  pc,                   \* position of the translateFile call
  targetContent,        \* the target content translateFile read
  missingErrorCodes,    \* the entries it found missing
  requests,             \* the codes passed to translateWithFallback
  translatedErrorCodes, \* the entries translated so far
  translatedCount,
  errors,
  result,               \* the value translateFile returned, once it has
  \* the backup manager of the translation organizer
  files,           \* content of each live locale file
  backupDirExists,
  backups,         \* content of each file in the backups directory
  now,             \* the clock, in seconds
  lastBackupFile,  \* the file createBackupFile last wrote, per base name
  reply,           \* the message a handler last posted to the panel
  \* translateWithFallback of src/src/utils/translator.ts
  response,        \* what the translation service answers to the request
  translation,     \* what translateWithFallback returned or threw
  \* the panel of the file organizer, next to a running batch translate
  messages,        \* the commands of that panel handled so far
  \* handleAddErrorCodes of src/unnamed/part_003
  added,           \* details.added of the result posted to the panel
  addResult,       \* the error codes of the message, stats and details.exists
  \* handleStartTranslate of the batch translators, step by step
  batchSource,     \* the lines of the source file
  batchTargets,    \* the target files of the batch: name and lines
  batchPc,         \* where handleStartTranslate and translateFile stand
  fileIndex,       \* the target file the for loop is at
  keyIndex,        \* the missing key the loop of translateFile is at
  batchMissing,    \* missingErrorCodes of the file being translated
  batchCount,      \* translatedCount of the file being translated
  outstanding,     \* the requests the translation service has not answered
  answers,         \* the answered requests not yet awaited, with the answer
  events,          \* the requests issued and the messages posted, in order
  \* the settings of the error-code organizer
  errorCodeSourceFile,  \* multilang-tools.errorCodeSourceFile
  errorCodeExecFile,    \* multilang-tools.errorCodeExecFile
  \* the writers of string values, and organizeTargetFile of the error codes
  serialized,      \* a string value and the text a writer made of it
  rebuildSource,   \* the lines of the source file
  rebuildTarget,   \* the lines of the target file
  rebuilt          \* the lines organizeTargetFile returned, once it has

organizeVars == <<content, original, runs>>
diffVars ==
  <<sourceKeyValues, targetKeyValues, missingKeyList, redundantKeyList, diffBy>>
parseVars ==
  <<sourceObject, targetObject, sourceText, targetText, sourceTranslations,
    missingTranslations, parsedBy>>
translateVars ==
  <<sourceFile, targetFile, pc, targetContent, missingErrorCodes, requests,
    translatedErrorCodes, translatedCount, errors, result>>
backupVars == <<files, backupDirExists, backups, now, lastBackupFile, reply>>

translatorVars == <<response, translation>>
panelVars == <<messages>>
addVars == <<added, addResult>>
batchVars ==
  <<batchSource, batchTargets, batchPc, fileIndex, keyIndex, batchMissing,
    batchCount, outstanding, answers, events>>
configVars == <<errorCodeSourceFile, errorCodeExecFile>>
pureVars == <<serialized, rebuildSource, rebuildTarget, rebuilt>>
restVars ==
  <<translatorVars, panelVars, addVars, batchVars, configVars, pureVars>>

vars ==
  <<organizeVars, diffVars, parseVars, translateVars, backupVars, restVars>>

\* a component that no command has touched
organizeUnused == content = <<>> /\ original = <<>> /\ runs = 0
diffUnused ==
  /\ sourceKeyValues = <<>> /\ targetKeyValues = <<>>
  /\ missingKeyList = <<>> /\ redundantKeyList = <<>> /\ diffBy = "none"
parseUnused ==
  /\ sourceObject = <<>> /\ targetObject = <<>>
  /\ sourceText = <<>> /\ targetText = <<>>
  /\ sourceTranslations = <<>> /\ missingTranslations = <<>>
  /\ parsedBy = "none"
translateUnused ==
  /\ sourceFile = <<>> /\ targetFile = <<>> /\ pc = "idle"
  /\ targetContent = <<>> /\ missingErrorCodes = <<>> /\ requests = <<>>
  /\ translatedErrorCodes = <<>> /\ translatedCount = 0
  /\ errors = <<>> /\ result = <<>>
backupUnused ==
  /\ files = <<>> /\ backupDirExists = FALSE /\ backups = <<>>
  /\ now = 0 /\ lastBackupFile = <<>> /\ reply = <<>>
translatorUnused == response = <<>> /\ translation = <<>>
panelUnused == messages = <<>>
addUnused == added = <<>> /\ addResult = <<>>
batchUnused ==
  /\ batchSource = <<>> /\ batchTargets = <<>> /\ batchPc = "idle"
  /\ fileIndex = 0 /\ keyIndex = 0 /\ batchMissing = <<>> /\ batchCount = 0
  /\ outstanding = {} /\ answers = {} /\ events = <<>>
configUnused == errorCodeSourceFile = <<>> /\ errorCodeExecFile = <<>>
pureUnused ==
  /\ serialized = <<>> /\ rebuildSource = <<>> /\ rebuildTarget = <<>>
  /\ rebuilt = <<>>
restUnused ==
  /\ translatorUnused /\ panelUnused /\ addUnused /\ batchUnused
  /\ configUnused /\ pureUnused

-----------------------------------------------------------------------------
(* Bounds *)
MaxLines == 5
MaxRuns == 2
MaxKeys == 3
MaxMembers == 2
MaxSourceCodes == 3
MaxTargetCodes == 2
MaxClock == 2

-----------------------------------------------------------------------------
(* Lines of an error-code file *)

\* the section comment "  // 系统模块" (system module), transliterated
SysComment == <<"//", "xitong", "mokuai">>
\* the section comment "  // 会员模块" (member module), transliterated
VipComment == <<"//", "huiyuan", "mokuai">>

DeclLine ==
  [kind |-> "decl", text |-> <<"const", "errCode", "=", "{">>, code |-> <<>>]
CloseLine == [kind |-> "close", text |-> <<"}">>, code |-> <<>>]
BlankLine == [kind |-> "blank", text |-> <<>>, code |-> <<>>]
SectionLine(t) == [kind |-> "section", text |-> t, code |-> <<>>]
CodeLine(c) == [kind |-> "code", text |-> <<"\"code\":", "\"message\",">>, code |-> c]

Code100 == <<1, 0, 0>>
Code1002000000 == <<1, 0, 0, 2, 0, 0, 0, 0, 0, 0>>
Code1003000000 == <<1, 0, 0, 3, 0, 0, 0, 0, 0, 0>>

Codes == {Code100, Code1002000000, Code1003000000}

ErrorCodeLines ==
  {DeclLine, CloseLine, BlankLine, SectionLine(SysComment),
   SectionLine(VipComment)} \cup {CodeLine(c) : c \in Codes}

\* content.split('\n') never yields an empty array: '' splits to ['']
FilesUpTo(alphabet, n) == UNION {[1..k -> alphabet] : k \in 1..n}

-----------------------------------------------------------------------------
(* String helpers on digit sequences *)

startsWith(s, p) == Len(p) <= Len(s) /\ SubSeq(s, 1, Len(p)) = p

RECURSIVE parseInt(_)
parseInt(s) ==
  IF s = <<>> THEN 0 ELSE 10 * parseInt(SubSeq(s, 1, Len(s) - 1)) + s[Len(s)]

sortByCode_unsorted(s) == s

\* Array.prototype.sort with (a, b) => parseInt(a.code) - parseInt(b.code):
\* a stable sort, so equal keys keep their order.
RECURSIVE sortByCode(_)
sortByCode(s) ==
  IF Len(s) <= 1 THEN s
  ELSE LET rest == sortByCode(SubSeq(s, 1, Len(s) - 1))
           x == s[Len(s)]
           k == Cardinality({i \in 1..Len(rest) :
                              parseInt(rest[i].code) <= parseInt(x.code)})
       IN SubSeq(rest, 1, k) \o <<x>> \o SubSeq(rest, k + 1, Len(rest))

\* lines.join('\n'), read back by split('\n'): no lines gives '' = ['']
join(lines) == IF lines = <<>> THEN <<BlankLine>> ELSE lines

-----------------------------------------------------------------------------
(* organizeSourceFile of src/src/commands/errorCode/fileOrganize.ts *)

RECURSIVE parseItemsFrom(_, _, _)
parseItemsFrom(lines, i, currentModuleIndex) ==
  IF i > Len(lines) THEN <<>>
  ELSE LET line == lines[i] IN
    CASE line.kind = "decl" ->
           <<[type |-> "header", content |-> line]>>
             \o parseItemsFrom(lines, i + 1, currentModuleIndex)
      [] line.kind = "close" ->
           <<[type |-> "footer", content |-> line]>>
             \o parseItemsFrom(lines, i + 1, currentModuleIndex)
      [] line.kind = "section" ->
           <<[type |-> "comment", content |-> line,
              moduleIndex |-> currentModuleIndex + 1]>>
             \o parseItemsFrom(lines, i + 1, currentModuleIndex + 1)
      [] line.kind = "code" ->
           <<[type |-> "errorCode", content |-> line, code |-> line.code,
              moduleIndex |-> currentModuleIndex]>>
             \o parseItemsFrom(lines, i + 1, currentModuleIndex)
      [] line.kind = "blank" ->
           parseItemsFrom(lines, i + 1, currentModuleIndex)
      [] OTHER ->
           <<[type |-> "header", content |-> line]>>
             \o parseItemsFrom(lines, i + 1, currentModuleIndex)

parseAllItems(lines) == parseItemsFrom(lines, 1, -1)

errorCodeItems(items) == SelectSeq(items, LAMBDA it : it.type = "errorCode")

\* the prefix identifyModulePrefixRules takes from one code
codePrefix(code) ==
  IF Len(code) >= 4 THEN {SubSeq(code, 1, 4)}
  ELSE IF Len(code) >= 3 THEN {SubSeq(code, 1, 3)}
  ELSE {}

\* Map<moduleIndex, prefixes>; modules without a prefix get no entry.
identifyModulePrefixRules(items) ==
  LET ecs == errorCodeItems(items)
      prefixes(m) == UNION {codePrefix(ecs[i].code) :
                              i \in {j \in 1..Len(ecs) : ecs[j].moduleIndex = m}}
      mods == {ecs[i].moduleIndex : i \in 1..Len(ecs)}
  IN [m \in {x \in mods : prefixes(x) # {}} |-> prefixes(m)]

\* The Map is filled in file order, so it iterates in ascending moduleIndex;
\* the stable sort by prefixCount then returns the lowest index among the
\* modules with the fewest prefixes.
findCorrectModuleIndex(code, modulePrefixes) ==
  LET matchingModules ==
        {m \in DOMAIN modulePrefixes :
           \E prefix \in modulePrefixes[m] : startsWith(code, prefix)}
      prefixCount(m) == Cardinality(modulePrefixes[m])
  IN IF matchingModules = {} THEN -1
     ELSE CHOOSE m \in matchingModules :
            \A o \in matchingModules :
              \/ prefixCount(m) < prefixCount(o)
              \/ prefixCount(m) = prefixCount(o) /\ m <= o

reassignErrorCodesToCorrectModules(items, modulePrefixes) ==
  [i \in 1..Len(items) |->
     IF items[i].type # "errorCode" THEN items[i]
     ELSE LET correctModuleIndex ==
                findCorrectModuleIndex(items[i].code, modulePrefixes)
          IN IF correctModuleIndex # -1
                  /\ correctModuleIndex # items[i].moduleIndex
             THEN [items[i] EXCEPT !.moduleIndex = correctModuleIndex]
             ELSE items[i]]

\* sorts per-module copies of the item lists and returns items unchanged
sortErrorCodesWithinModules(items) == items

RECURSIVE emitModules(_, _, _)
emitModules(items, moduleIndexes, m) ==
  IF moduleIndexes = {} THEN <<>>
  ELSE IF m \notin moduleIndexes THEN emitModules(items, moduleIndexes, m + 1)
  ELSE LET comments == SelectSeq(items, LAMBDA it :
                         it.type = "comment" /\ it.moduleIndex = m)
           codes == SelectSeq(items, LAMBDA it :
                         it.type = "errorCode" /\ it.moduleIndex = m)
           commentLines == IF comments = <<>> THEN <<>>
                           ELSE <<comments[Len(comments)].content>>
           sorted == sortByCode(codes)
       IN commentLines
            \o [k \in 1..Len(sorted) |-> sorted[k].content]
            \o emitModules(items, moduleIndexes \ {m}, m + 1)

rebuildFileFromItems_sectionedOnly(items) ==
  LET headers == SelectSeq(items, LAMBDA it : it.type = "header")
      footers == SelectSeq(items, LAMBDA it : it.type = "footer")
      moduleIndexes == {items[i].moduleIndex :
                          i \in {j \in 1..Len(items) :
                                   items[j].type \in {"comment", "errorCode"}}}
  IN join([k \in 1..Len(headers) |-> headers[k].content]
            \o emitModules(items, moduleIndexes \ {-1}, 0)
            \o [k \in 1..Len(footers) |-> footers[k].content])

rebuildFileFromItems(items) ==
  LET headers == SelectSeq(items, LAMBDA it : it.type = "header")
      footers == SelectSeq(items, LAMBDA it : it.type = "footer")
      moduleIndexes == {items[i].moduleIndex :
                          i \in {j \in 1..Len(items) :
                                   items[j].type \in {"comment", "errorCode"}}}
  IN join([k \in 1..Len(headers) |-> headers[k].content]
            \o emitModules(items, moduleIndexes, -1)
            \o [k \in 1..Len(footers) |-> footers[k].content])

organizeSourceFile(lines) ==
  LET allItems == parseAllItems(lines)
      modulePrefixes == identifyModulePrefixRules(allItems)
      reorganizedItems ==
        reassignErrorCodesToCorrectModules(allItems, modulePrefixes)
      sortedItems == sortErrorCodesWithinModules(reorganizedItems)
  IN rebuildFileFromItems(sortedItems)

-----------------------------------------------------------------------------
(* Specification: organize applied to hand-edited error-code files *)

InitOrganize ==
  /\ content \in FilesUpTo(ErrorCodeLines, MaxLines)
  /\ original = content
  /\ runs = 0
  /\ diffUnused /\ parseUnused /\ translateUnused /\ backupUnused
  /\ restUnused

OrganizeSource ==
  /\ runs < MaxRuns
  /\ original' = content
  /\ content' = organizeSourceFile(content)
  /\ runs' = runs + 1
  /\ UNCHANGED <<diffVars, parseVars, translateVars, backupVars, restVars>>

NextOrganize == OrganizeSource

SpecOrganize == InitOrganize /\ [][NextOrganize]_vars

-----------------------------------------------------------------------------
(* Properties of organizeSourceFile *)

count(lines, l) == Cardinality({i \in 1..Len(lines) : lines[i] = l})

\* the codes parseAllItems files under module m, in file order
moduleCodes(lines, m) ==
  LET ecs == SelectSeq(parseAllItems(lines), LAMBDA it :
               it.type = "errorCode" /\ it.moduleIndex = m)
  IN [k \in 1..Len(ecs) |-> ecs[k].code]

moduleIndexesOf(lines) ==
  {-1} \cup {k - 1 : k \in 1..Cardinality({i \in 1..Len(lines) :
                                              lines[i].kind = "section"})}

ascending(codes) ==
  \A i \in 1..Len(codes) - 1 : parseInt(codes[i]) <= parseInt(codes[i + 1])

sectionsAscending(lines) ==
  \A m \in moduleIndexesOf(lines) : ascending(moduleCodes(lines, m))

\* some section whose comment contains the word holds the code
sectionHolds(lines, word, code) ==
  LET items == parseAllItems(lines) IN
  \E i \in 1..Len(items) : \E j \in 1..Len(items) :
    /\ items[i].type = "comment"
    /\ \E k \in 1..Len(items[i].content.text) : items[i].content.text[k] = word
    /\ items[j].type = "errorCode"
    /\ items[j].code = code
    /\ items[j].moduleIndex = items[i].moduleIndex

\* C1: organizeSourceFile is a fixed point: organizing an organized file
\* gives byte-identical content.
C1_OrganizeIdempotent == runs >= 2 => content = original

\* C2: organizeSourceFile neither loses nor duplicates entries: every
\* error-code line of the input occurs in the output as often as in the
\* input, the output holds no other error-code line, and each one lies
\* after the header lines and before the footer lines, inside one module.
C2_EntriesPreserved ==
  runs >= 1 =>
    /\ \A c \in Codes :
         count(content, CodeLine(c)) = count(original, CodeLine(c))
    /\ \A i \in 1..Len(content) : content[i].kind = "code" =>
         /\ \A j \in 1..Len(content) :
              content[j].kind = "decl" => j < i
         /\ \A j \in 1..Len(content) :
              content[j].kind = "close" => i < j

C2_Witness ==
  /\ runs = 1
  /\ content # original
  /\ \E i \in 1..Len(original) : original[i].kind = "code"
  /\ \E m \in moduleIndexesOf(original) :
       moduleCodes(original, m) # moduleCodes(content, m)

\* C6: with 1003000000 under the section of 系统 (xitong) and 1002000000
\* under the section of 会员 (huiyuan), organizeSourceFile puts 1002000000
\* under the 系统 section and 1003000000 under the 会员 section.
C6_SwappedEntriesMoved ==
  ( /\ runs = 1
    /\ original = <<SectionLine(SysComment), CodeLine(Code1003000000),
                    SectionLine(VipComment), CodeLine(Code1002000000)>> )
  => /\ sectionHolds(content, "xitong", Code1002000000)
     /\ sectionHolds(content, "huiyuan", Code1003000000)

\* C7: after organizeSourceFile the codes of every section are in
\* ascending numeric order.
C7_SectionsAscending == runs >= 1 => sectionsAscending(content)

C7_Witness ==
  /\ runs = 1
  /\ ~sectionsAscending(original)
  /\ sectionsAscending(content)

-----------------------------------------------------------------------------
(* organizeSourceFile of the semantic organizer (src/unnamed/part_002) *)

\* "  // 验证码报错" (verification errors) and "  // 活动模块" (activity
\* module, a name no semantic rule mentions), transliterated
VerifyComment == <<"//", "yanzhengma", "baocuo">>
ActivityComment == <<"//", "huodong", "mokuai">>

Code0001 == <<0, 0, 0, 1>>

SemanticLines ==
  {DeclLine, CloseLine, SectionLine(SysComment), SectionLine(VipComment),
   SectionLine(ActivityComment), SectionLine(VerifyComment),
   CodeLine(Code0001), CodeLine(Code1002000000), CodeLine(Code1003000000)}

includes(text, word) == \E k \in 1..Len(text) : text[k] = word

\* one iteration of the loop of parseSectionsAndCodes; null is <<>>
parseSectionsStep(st, line) ==
  CASE line.kind = "close" -> [st EXCEPT !.endBracket = <<line>>]
    [] line.kind = "section" ->
         [st EXCEPT
            !.sections = IF st.currentSection # <<>>
                         THEN Append(@, [comment |-> st.currentSection[1],
                                         errorCodes |-> st.currentErrorCodes])
                         ELSE @,
            !.currentSection = <<line>>,
            !.currentErrorCodes = <<>>]
    [] line.kind = "code" /\ st.currentSection # <<>> ->
         [st EXCEPT !.currentErrorCodes =
                      Append(@, [code |-> line.code, line |-> line])]
    [] OTHER ->
         IF st.currentSection = <<>>
         THEN [st EXCEPT !.sections =
                           Append(@, [comment |-> line, errorCodes |-> <<>>])]
         ELSE st

RECURSIVE parseSectionsLoop(_, _, _)
parseSectionsLoop(lines, i, st) ==
  IF i > Len(lines) THEN st
  ELSE parseSectionsLoop(lines, i + 1, parseSectionsStep(st, lines[i]))

\* the sections of parseSectionsAndCodes; allErrorCodes repeats their codes
parseSectionsAndCodes(lines) ==
  LET st == parseSectionsLoop(lines, 1,
              [sections |-> <<>>, currentSection |-> <<>>,
               currentErrorCodes |-> <<>>, endBracket |-> <<>>])
      last == IF st.currentSection # <<>>
              THEN <<[comment |-> st.currentSection[1],
                      errorCodes |-> st.currentErrorCodes]>>
              ELSE <<>>
      bracket == IF st.endBracket # <<>>
                 THEN <<[comment |-> st.endBracket[1], errorCodes |-> <<>>]>>
                 ELSE <<>>
  IN st.sections \o last \o bracket

codesOf(section) ==
  {section.errorCodes[k].code : k \in 1..Len(section.errorCodes)}

analyzePrefixPattern(codes) ==
  {SubSeq(c, 1, 4) : c \in {x \in codes : Len(x) >= 4}}
    \cup {SubSeq(c, 1, 2) : c \in {x \in codes : Len(x) >= 2}}

\* semanticRules[sectionName] = prefixes keeps the position of a key that
\* is already present (Object.entries lists keys in insertion order)
setRule(rules, name, prefixes) ==
  IF \E k \in 1..Len(rules) : rules[k].name = name
  THEN [k \in 1..Len(rules) |->
          IF rules[k].name = name
          THEN [name |-> name, prefixes |-> prefixes] ELSE rules[k]]
  ELSE Append(rules, [name |-> name, prefixes |-> prefixes])

RECURSIVE identifySemanticRulesFrom(_, _, _)
identifySemanticRulesFrom(sections, i, rules) ==
  IF i > Len(sections) THEN rules
  ELSE LET section == sections[i]
           sectionName == section.comment
           codes == codesOf(section)
           verificationPrefixes ==
             {SubSeq(c, 1, IF Len(c) < 4 THEN Len(c) ELSE 4) :
                c \in {x \in codes : \/ startsWith(x, <<0, 0, 0>>)
                                     \/ startsWith(x, <<6, 2, 0>>)}}
           next ==
             IF section.errorCodes = <<>> THEN rules
             ELSE IF \/ includes(sectionName.text, "yanzhengma")
                     \/ includes(sectionName.text, "baocuo")
               THEN IF verificationPrefixes # {}
                    THEN setRule(rules, sectionName, verificationPrefixes)
                    ELSE rules
             ELSE IF includes(sectionName.text, "xitong")
               THEN setRule(rules, sectionName, {<<1, 0, 0, 2>>})
             ELSE IF includes(sectionName.text, "huiyuan")
               THEN setRule(rules, sectionName, {<<1, 0, 0, 3>>})
             ELSE IF includes(sectionName.text, "yunying")
               THEN setRule(rules, sectionName, {<<1, 0, 0, 5>>})
             ELSE IF includes(sectionName.text, "xinxi")
               THEN setRule(rules, sectionName, {<<1, 0, 0, 6>>})
             ELSE IF analyzePrefixPattern(codes) # {}
               THEN setRule(rules, sectionName,
                            {q \in analyzePrefixPattern(codes) : Len(q) = 4})
             ELSE rules
       IN identifySemanticRulesFrom(sections, i + 1, next)

identifySemanticRules(sections) == identifySemanticRulesFrom(sections, 1, <<>>)

\* the first rule, in insertion order, with a matching prefix; null is <<>>
findCorrectModuleBySemantic(code, semanticRules) ==
  LET hits == {k \in 1..Len(semanticRules) :
                 \E prefix \in semanticRules[k].prefixes :
                   startsWith(code, prefix)}
  IN IF hits = {} THEN <<>>
     ELSE <<semanticRules[CHOOSE k \in hits : \A o \in hits : k <= o].name>>

RECURSIVE misplacedFrom(_, _, _, _)
misplacedFrom(sections, semanticRules, i, j) ==
  IF i > Len(sections) THEN <<>>
  ELSE IF j > Len(sections[i].errorCodes)
    THEN misplacedFrom(sections, semanticRules, i + 1, 1)
  ELSE LET errorCode == sections[i].errorCodes[j]
           sectionName == sections[i].comment
           correctModule ==
             findCorrectModuleBySemantic(errorCode.code, semanticRules)
       IN (IF correctModule # <<>> /\ correctModule[1] # sectionName
           THEN <<[code |-> errorCode.code, line |-> errorCode.line,
                   currentSection |-> sectionName,
                   shouldBeIn |-> correctModule[1]]>>
           ELSE <<>>)
          \o misplacedFrom(sections, semanticRules, i, j + 1)

\* the misplacedCodes of semanticAnalyzeErrorCodeDistribution
semanticAnalyzeErrorCodeDistribution(sections) ==
  misplacedFrom(sections, identifySemanticRules(sections), 1, 1)

\* Array.find: the first section with that comment, 0 when there is none
findSection(sections, comment) ==
  LET hits == {k \in 1..Len(sections) : sections[k].comment = comment}
  IN IF hits = {} THEN 0 ELSE CHOOSE k \in hits : \A o \in hits : k <= o

moveMisplaced(sections, misplacedCode) ==
  LET cur == findSection(sections, misplacedCode.currentSection)
      removed ==
        IF cur = 0 THEN sections
        ELSE [sections EXCEPT ![cur].errorCodes =
                SelectSeq(@, LAMBDA ec : ec.code # misplacedCode.code)]
      tgt == findSection(removed, misplacedCode.shouldBeIn)
  IN IF tgt = 0 THEN removed
     ELSE [removed EXCEPT ![tgt].errorCodes =
             Append(@, [code |-> misplacedCode.code,
                        line |-> misplacedCode.line])]

RECURSIVE reorganizeFrom(_, _, _)
reorganizeFrom(sections, misplacedCodes, i) ==
  IF i > Len(misplacedCodes) THEN sections
  ELSE reorganizeFrom(moveMisplaced(sections, misplacedCodes[i]),
                      misplacedCodes, i + 1)

reorganizeErrorCodes(sections, misplacedCodes) ==
  reorganizeFrom(sections, misplacedCodes, 1)

sortSections(sections) ==
  [k \in 1..Len(sections) |->
     [sections[k] EXCEPT !.errorCodes = sortByCode(@)]]

RECURSIVE rebuildFile(_)
rebuildFile(sections) ==
  IF sections = <<>> THEN <<>>
  ELSE <<sections[1].comment>>
         \o [k \in 1..Len(sections[1].errorCodes) |->
               sections[1].errorCodes[k].line]
         \o rebuildFile(Tail(sections))

semanticOrganizeSourceFile(lines) ==
  LET sections == parseSectionsAndCodes(lines)
      misplacedCodes == semanticAnalyzeErrorCodeDistribution(sections)
      reorganizedSections == reorganizeErrorCodes(sections, misplacedCodes)
  IN join(rebuildFile(sortSections(reorganizedSections)))

misplacedIn(lines) ==
  semanticAnalyzeErrorCodeDistribution(parseSectionsAndCodes(lines))

-----------------------------------------------------------------------------
(* Specification: the semantic organizer applied to hand-edited files *)

InitSemantic ==
  /\ content \in FilesUpTo(SemanticLines, MaxLines)
  /\ original = content
  /\ runs = 0
  /\ diffUnused /\ parseUnused /\ translateUnused /\ backupUnused
  /\ restUnused

SemanticOrganizeSource ==
  /\ runs < MaxRuns
  /\ original' = content
  /\ content' = semanticOrganizeSourceFile(content)
  /\ runs' = runs + 1
  /\ UNCHANGED <<diffVars, parseVars, translateVars, backupVars, restVars>>

NextSemantic == SemanticOrganizeSource

SpecSemantic == InitSemantic /\ [][NextSemantic]_vars

\* C5: the semantic classifier reaches a fixed point after one organize:
\* semanticAnalyzeErrorCodeDistribution reports no misplaced code on the
\* output of organizeSourceFile.
C5_NoMisplacedAfterOrganize == runs >= 1 => misplacedIn(content) = <<>>

-----------------------------------------------------------------------------
(* The organize-target diff: calculateMissingKeys / calculateRedundantKeys *)
(* of fileOrganize.ts and the filters of handleOrganizeTarget (part_000)   *)

KeyValues ==
  {[key |-> "a", value |-> "x"], [key |-> "a", value |-> "y"],
   [key |-> "b", value |-> "x"], [key |-> "c", value |-> "x"]}

KeyValueLists == {<<>>} \cup FilesUpTo(KeyValues, MaxKeys)

\* the keys of getFileInfo, in file order
keysOf(keyValues) == [i \in 1..Len(keyValues) |-> keyValues[i].key]

calculateMissingKeys_present(sourceKeys, targetKeys) ==
  SelectSeq(sourceKeys, LAMBDA key : includes(targetKeys, key))
calculateMissingKeys(sourceKeys, targetKeys) ==
  SelectSeq(sourceKeys, LAMBDA key : ~includes(targetKeys, key))

calculateRedundantKeys(sourceKeys, targetKeys) ==
  SelectSeq(targetKeys, LAMBDA key : ~includes(sourceKeys, key))

\* Array.some(kv => kv.key === key)
someKey(keyValues, key) ==
  \E i \in 1..Len(keyValues) : keyValues[i].key = key

filterMissingKeyList(sourceKVs, targetKVs) ==
  SelectSeq(sourceKVs, LAMBDA sourceKV : ~someKey(targetKVs, sourceKV.key))

filterRedundantKeyList(sourceKVs, targetKVs) ==
  SelectSeq(targetKVs, LAMBDA targetKV : ~someKey(sourceKVs, targetKV.key))

InitDiff ==
  /\ sourceKeyValues \in KeyValueLists
  /\ targetKeyValues \in KeyValueLists
  /\ missingKeyList = <<>>
  /\ redundantKeyList = <<>>
  /\ diffBy = "none"
  /\ organizeUnused /\ parseUnused /\ translateUnused /\ backupUnused
  /\ restUnused

\* handleOrganizeTargetFiles of fileOrganize.ts diffs the key lists
CalculateKeys ==
  /\ diffBy = "none"
  /\ missingKeyList' =
       calculateMissingKeys(keysOf(sourceKeyValues), keysOf(targetKeyValues))
  /\ redundantKeyList' =
       calculateRedundantKeys(keysOf(sourceKeyValues), keysOf(targetKeyValues))
  /\ diffBy' = "calculateKeys"
  /\ UNCHANGED <<sourceKeyValues, targetKeyValues>>
  /\ UNCHANGED <<organizeVars, parseVars, translateVars, backupVars, restVars>>

\* handleOrganizeTarget of the translation organizer diffs the pairs
FilterKeyValues ==
  /\ diffBy = "none"
  /\ missingKeyList' = filterMissingKeyList(sourceKeyValues, targetKeyValues)
  /\ redundantKeyList' =
       filterRedundantKeyList(sourceKeyValues, targetKeyValues)
  /\ diffBy' = "filterKeyValues"
  /\ UNCHANGED <<sourceKeyValues, targetKeyValues>>
  /\ UNCHANGED <<organizeVars, parseVars, translateVars, backupVars, restVars>>

NextDiff == CalculateKeys \/ FilterKeyValues

SpecDiff == InitDiff /\ [][NextDiff]_vars

\* the keys a diff reported, whichever diff it was
reportedKeys(list) == IF diffBy = "filterKeyValues" THEN keysOf(list) ELSE list

\* C3: for every source key list A and target key list B, in any order,
\* the diff reports as missing exactly the keys of A that do not occur in B
\* and as redundant exactly the keys of B that do not occur in A (each as
\* often as the list has it).
C3_DiffIsSetDifference ==
  diffBy # "none" =>
    LET A == keysOf(sourceKeyValues)
        B == keysOf(targetKeyValues)
        missing == reportedKeys(missingKeyList)
        redundant == reportedKeys(redundantKeyList)
    IN \A key \in {kv.key : kv \in KeyValues} :
         /\ count(missing, key) =
              IF includes(B, key) THEN 0 ELSE count(A, key)
         /\ count(redundant, key) =
              IF includes(A, key) THEN 0 ELSE count(B, key)

\* a diff that reported both missing and redundant keys for two lists that
\* hold a common key at different positions
C3_Witness ==
  /\ diffBy = "calculateKeys"
  /\ missingKeyList # <<>>
  /\ redundantKeyList # <<>>
  /\ \E i \in 1..Len(sourceKeyValues) : \E j \in 1..Len(targetKeyValues) :
       i # j /\ sourceKeyValues[i].key = targetKeyValues[j].key

-----------------------------------------------------------------------------
(* Locale files and the two parseTranslations                              *)
(* (translate/batchTranslate.ts and translate/batchTranslateConfig.ts)     *)

\* A locale file is the sequence of its tokens.
Punct(p) == [t |-> "punct", v |-> p]
ExportDefault == [t |-> "keyword", v |-> "export default"]
Str(s) == [t |-> "string", v |-> s]      \* a quoted string
Ident(s) == [t |-> "ident", v |-> s]     \* an unquoted property name
Num(n) == [t |-> "number", v |-> n]

\* The values a locale file spells out.
StringValue(s) == [type |-> "string", v |-> s, members |-> <<>>]
NumberValue(n) == [type |-> "number", v |-> n, members |-> <<>>]
ObjectValue(ms) == [type |-> "object", v |-> "", members |-> ms]

LeafValues == {StringValue("x"), StringValue("y"), NumberValue("1")}

\* member lists of at most n members with pairwise different keys
Members(keys, values, n) ==
  {ms \in {<<>>} \cup FilesUpTo([key : keys, val : values], n) :
     \A i \in 1..Len(ms) : \A j \in 1..Len(ms) :
       ms[i].key = ms[j].key => i = j}

NestedObjects == {ObjectValue(ms) : ms \in Members({"a", "c"}, LeafValues, 1)}

SourceObjects ==
  {ObjectValue(ms) :
     ms \in Members({"a", "b"}, LeafValues \cup NestedObjects, MaxMembers)}

TargetObjects == {ObjectValue(ms) : ms \in Members({"a", "b"}, LeafValues, 1)}

\* a file is plain JSON or an `export default` module, and spells its
\* property names with or without quotes
Formats == [wrapper : {"none", "exportDefault"}, quoted : BOOLEAN]

RECURSIVE renderValue(_, _), renderMembers(_, _)
renderValue(val, quoted) ==
  CASE val.type = "string" -> <<Str(val.v)>>
    [] val.type = "number" -> <<Num(val.v)>>
    [] OTHER -> <<Punct("{")>> \o renderMembers(val.members, quoted)
                  \o <<Punct("}")>>
renderMembers(ms, quoted) ==
  IF ms = <<>> THEN <<>>
  ELSE <<IF quoted THEN Str(ms[1].key) ELSE Ident(ms[1].key), Punct(":")>>
         \o renderValue(ms[1].val, quoted)
         \o (IF Len(ms) > 1 THEN <<Punct(",")>> ELSE <<>>)
         \o renderMembers(Tail(ms), quoted)

renderFile(obj, format) ==
  IF format.wrapper = "exportDefault"
  THEN <<ExportDefault>> \o renderValue(obj, format.quoted) \o <<Punct(";")>>
  ELSE renderValue(obj, format.quoted)

\* obj[key] = val on an object literal: a repeated key keeps its place
setMember(ms, key, val) ==
  IF \E k \in 1..Len(ms) : ms[k].key = key
  THEN [k \in 1..Len(ms) |->
          IF ms[k].key = key THEN [key |-> key, val |-> val] ELSE ms[k]]
  ELSE Append(ms, [key |-> key, val |-> val])

failed == [ok |-> FALSE, val |-> NumberValue("0"), next |-> 0]

\* The grammar JSON.parse (json) and new Function (~json) accept: JSON
\* wants quoted property names and no trailing comma.
RECURSIVE parseValue(_, _, _), parseMembers(_, _, _, _)
parseValue(toks, i, json) ==
  IF i > Len(toks) THEN failed
  ELSE CASE toks[i].t = "string" ->
              [ok |-> TRUE, val |-> StringValue(toks[i].v), next |-> i + 1]
         [] toks[i].t = "number" ->
              [ok |-> TRUE, val |-> NumberValue(toks[i].v), next |-> i + 1]
         [] toks[i] = Punct("{") -> parseMembers(toks, i + 1, json, <<>>)
         [] OTHER -> failed
parseMembers(toks, i, json, ms) ==
  IF i > Len(toks) THEN failed
  ELSE IF toks[i] = Punct("}")
    THEN IF json /\ ms # <<>> THEN failed
         ELSE [ok |-> TRUE, val |-> ObjectValue(ms), next |-> i + 1]
  ELSE IF ~(toks[i].t = "string" \/ (toks[i].t = "ident" /\ ~json))
    THEN failed
  ELSE IF i + 1 > Len(toks) \/ toks[i + 1] # Punct(":") THEN failed
  ELSE LET r == parseValue(toks, i + 2, json)
           rest == setMember(ms, toks[i].v, r.val)
       IN IF ~r.ok \/ r.next > Len(toks) THEN failed
          ELSE IF toks[r.next] = Punct(",")
            THEN parseMembers(toks, r.next + 1, json, rest)
          ELSE IF toks[r.next] = Punct("}")
            THEN [ok |-> TRUE, val |-> ObjectValue(rest), next |-> r.next + 1]
          ELSE failed

\* JSON.parse(cleanContent); <<>> when it throws
JSONparse(toks) ==
  LET r == parseValue(toks, 1, TRUE)
  IN IF r.ok /\ r.next = Len(toks) + 1 THEN <<r.val>> ELSE <<>>

\* new Function('return (' + content + ')')(); <<>> when it throws
evalObject(toks) ==
  LET r == parseValue(toks, 1, FALSE)
  IN IF r.ok /\ r.next = Len(toks) + 1 THEN <<r.val>> ELSE <<>>

\* content.match(/export\s+default\s*(\{[\s\S]*\})/): from the brace after
\* `export default` to the last closing brace; the content when no match
exportDefaultObject(toks) ==
  LET starts == {e \in 1..Len(toks) - 1 :
                   /\ toks[e] = ExportDefault
                   /\ toks[e + 1] = Punct("{")
                   /\ \E l \in e + 2..Len(toks) : toks[l] = Punct("}")}
      e == CHOOSE x \in starts : \A y \in starts : x <= y
      closes == {l \in 1..Len(toks) : toks[l] = Punct("}")}
      last == CHOOSE l \in closes : \A y \in closes : y <= l
  IN IF starts = {} THEN toks ELSE SubSeq(toks, e + 1, last)

\* the while loop over keyValuePattern.exec: every quoted name followed by
\* a colon and a quoted value, wherever it stands
RECURSIVE keyValuePattern(_, _)
keyValuePattern(toks, i) ==
  IF i + 2 > Len(toks) THEN <<>>
  ELSE IF /\ toks[i].t = "string"
          /\ toks[i + 1] = Punct(":")
          /\ toks[i + 2].t = "string"
    THEN <<[key |-> toks[i].v, finalKey |-> toks[i].v,
            value |-> toks[i + 2].v]>> \o keyValuePattern(toks, i + 3)
  ELSE keyValuePattern(toks, i + 1)

RECURSIVE extractKeyValues(_, _)
extractKeyValues(ms, prefix) ==
  IF ms = <<>> THEN <<>>
  ELSE LET key == ms[1].key
           fullKey == IF prefix # "" THEN prefix \o "." \o key ELSE key
       IN (CASE ms[1].val.type = "string" ->
                  <<[key |-> fullKey, finalKey |-> key,
                     value |-> ms[1].val.v]>>
             [] ms[1].val.type = "object" ->
                  extractKeyValues(ms[1].val.members, fullKey)
             [] OTHER -> <<>>)
          \o extractKeyValues(Tail(ms), prefix)

\* extractKeyValues(parsed) of a parse result that may have thrown
extracted(parsed) ==
  IF parsed # <<>> /\ parsed[1].type = "object"
  THEN extractKeyValues(parsed[1].members, "") ELSE <<>>

\* parseTranslations of translate/batchTranslate.ts
parseTranslations(toks) == extracted(evalObject(exportDefaultObject(toks)))

\* parseTranslations of translate/batchTranslateConfig.ts
parseTranslationsConfig(toks) ==
  IF JSONparse(toks) # <<>> THEN extracted(JSONparse(toks))
  ELSE IF keyValuePattern(toks, 1) # <<>> THEN keyValuePattern(toks, 1)
  ELSE extracted(evalObject(exportDefaultObject(toks)))

\* the missingTranslations of translateFile
missingFrom(sourceItems, existingTranslations) ==
  SelectSeq(sourceItems,
            LAMBDA sourceItem : ~someKey(existingTranslations, sourceItem.key))

InitParse ==
  /\ sourceObject \in SourceObjects
  /\ targetObject \in TargetObjects
  /\ \E format \in Formats : sourceText = renderFile(sourceObject, format)
  /\ \E format \in Formats : targetText = renderFile(targetObject, format)
  /\ sourceTranslations = <<>>
  /\ missingTranslations = <<>>
  /\ parsedBy = "none"
  /\ organizeUnused /\ diffUnused /\ translateUnused /\ backupUnused
  /\ restUnused

ParseBatchTranslate ==
  /\ parsedBy = "none"
  /\ sourceTranslations' = parseTranslations(sourceText)
  /\ missingTranslations' =
       missingFrom(parseTranslations(sourceText), parseTranslations(targetText))
  /\ parsedBy' = "batchTranslate"
  /\ UNCHANGED <<sourceObject, targetObject, sourceText, targetText>>
  /\ UNCHANGED <<organizeVars, diffVars, translateVars, backupVars, restVars>>

ParseBatchTranslateConfig ==
  /\ parsedBy = "none"
  /\ sourceTranslations' = parseTranslationsConfig(sourceText)
  /\ missingTranslations' =
       missingFrom(parseTranslationsConfig(sourceText),
                   parseTranslationsConfig(targetText))
  /\ parsedBy' = "batchTranslateConfig"
  /\ UNCHANGED <<sourceObject, targetObject, sourceText, targetText>>
  /\ UNCHANGED <<organizeVars, diffVars, translateVars, backupVars, restVars>>

NextParse == ParseBatchTranslate \/ ParseBatchTranslateConfig

SpecParse == InitParse /\ [][NextParse]_vars

\* the string-valued leaves of an object, each with its path from the root
RECURSIVE leaves(_, _)
leaves(ms, path) ==
  IF ms = <<>> THEN {}
  ELSE (CASE ms[1].val.type = "string" ->
               {[path |-> Append(path, ms[1].key), value |-> ms[1].val.v]}
          [] ms[1].val.type = "object" ->
               leaves(ms[1].val.members, Append(path, ms[1].key))
          [] OTHER -> {})
       \cup leaves(Tail(ms), path)

RECURSIVE dotJoined(_)
dotJoined(path) ==
  IF Len(path) = 1 THEN path[1] ELSE path[1] \o "." \o dotJoined(Tail(path))

leafEntries(obj) ==
  {[key |-> dotJoined(l.path), value |-> l.value] : l \in leaves(obj.members, <<>>)}

\* C4: parseTranslations yields one entry per string-valued leaf, keyed by
\* the dot-joined path from the root, so the keys missing from a target are
\* the dot-joined leaf paths of the source that are no leaf path of the
\* target (source { a: "x", b: { c: "y" } } against target { a: "x" }
\* misses exactly b.c), whichever parse strategy is taken.
C4_DotJoinedLeafKeys ==
  parsedBy # "none" =>
    /\ Len(sourceTranslations) = Cardinality(leafEntries(sourceObject))
    /\ {[key |-> e.key, value |-> e.value] :
          e \in {sourceTranslations[i] : i \in 1..Len(sourceTranslations)}}
         = leafEntries(sourceObject)
    /\ {missingTranslations[i].key : i \in 1..Len(missingTranslations)}
         = {e.key : e \in leafEntries(sourceObject)}
             \ {e.key : e \in leafEntries(targetObject)}

-----------------------------------------------------------------------------
(* translateFile of the error-code batch translator                       *)
(* (src/src/commands/errorCode/batchTranslate.ts)                          *)

\* the line `  "code": "message",` translateFile writes for a translated
\* entry, and the closing `};` of a file it creates
InsertLine(code, message) ==
  [kind |-> "code", text |-> <<"\"code\":", message>>, code |-> code]
CloseStatementLine == [kind |-> "other", text |-> <<"};">>, code |-> <<>>]

\* what the translation service makes of a message
translatedText(message) == "\"translated\","

SourceFiles ==
  {<<DeclLine>> \o body \o <<CloseLine>> :
     body \in FilesUpTo({CodeLine(c) : c \in Codes}, MaxSourceCodes)}

\* a target file that does not exist yet reads as the empty content
TargetFiles ==
  {<<>>} \cup
  {<<DeclLine>> \o body \o <<CloseLine>> :
     body \in {<<>>} \cup FilesUpTo({CodeLine(c) : c \in Codes}, MaxTargetCodes)}

\* the entries of the lines that match /^"(\d+)":\s*"([^"]+)"/
parseErrorCodes(lines) ==
  LET entries == SelectSeq(lines, LAMBDA line : line.kind = "code")
  IN [i \in 1..Len(entries) |->
        [code |-> entries[i].code, message |-> entries[i].text[2]]]

\* line number, from 1, of the first line of that code; 0 when there is none
findErrorCodeLine(lines, code) ==
  LET hits == {i \in 1..Len(lines) :
                 lines[i].kind = "code" /\ lines[i].code = code}
  IN IF hits = {} THEN 0 ELSE CHOOSE i \in hits : \A j \in hits : i <= j

\* Array.sort((a, b) => a.lineNumber - b.lineNumber), which is stable
RECURSIVE sortByLineNumber(_)
sortByLineNumber(items) ==
  IF items = <<>> THEN <<>>
  ELSE LET rest == sortByLineNumber(SubSeq(items, 1, Len(items) - 1))
           last == items[Len(items)]
           before == SelectSeq(rest, LAMBDA x : x.lineNumber <= last.lineNumber)
           after == SelectSeq(rest, LAMBDA x : x.lineNumber > last.lineNumber)
       IN before \o <<last>> \o after

\* newLines.splice(lineNumber - 1, 0, insertLine) under the guard of the loop
RECURSIVE insertAtLineNumbers(_, _)
insertAtLineNumbers(newLines, items) ==
  IF items = <<>> THEN newLines
  ELSE LET lineNumber == items[1].lineNumber
           spliced ==
             IF lineNumber > 0 /\ lineNumber < Len(newLines)
             THEN SubSeq(newLines, 1, lineNumber - 1)
                    \o <<InsertLine(items[1].code, items[1].message)>>
                    \o SubSeq(newLines, lineNumber, Len(newLines))
             ELSE newLines
       IN insertAtLineNumbers(spliced, Tail(items))

\* !content.trim()
isBlankContent(lines) == \A i \in 1..Len(lines) : lines[i].kind = "blank"

updateTargetFileWithLineNumber(lines, translatedItems) ==
  IF isBlankContent(lines)
  THEN <<DeclLine>>
         \o [i \in 1..Len(translatedItems) |->
               InsertLine(translatedItems[i].code, translatedItems[i].message)]
         \o <<CloseStatementLine>>
  ELSE insertAtLineNumbers(lines, sortByLineNumber(translatedItems))

InitTranslate ==
  /\ sourceFile \in SourceFiles
  /\ targetFile \in TargetFiles
  /\ pc = "idle"
  /\ targetContent = <<>>
  /\ missingErrorCodes = <<>>
  /\ requests = <<>>
  /\ translatedErrorCodes = <<>>
  /\ translatedCount = 0
  /\ errors = <<>>
  /\ result = <<>>
  /\ organizeUnused /\ diffUnused /\ parseUnused /\ backupUnused
  /\ restUnused

\* translateFile up to its loop: read the target, list what is missing
TranslateFileStart ==
  /\ pc = "idle"
  /\ LET existingErrorCodes == parseErrorCodes(targetFile)
         missing ==
           SelectSeq(parseErrorCodes(sourceFile),
                     LAMBDA sourceCode :
                       \A i \in 1..Len(existingErrorCodes) :
                         existingErrorCodes[i].code # sourceCode.code)
     IN /\ targetContent' = targetFile
        /\ missingErrorCodes' = missing
        /\ IF missing = <<>>
           THEN /\ pc' = "done"
                /\ result' = <<[success |-> TRUE, translated |-> 0,
                                errors |-> <<>>]>>
           ELSE /\ pc' = "translating"
                /\ result' = result
  /\ UNCHANGED <<sourceFile, targetFile, requests, translatedErrorCodes,
                 translatedCount, errors>>
  /\ UNCHANGED <<organizeVars, diffVars, parseVars, backupVars, restVars>>

\* the translation service answers with a text, with no text, or throws
Outcomes == {"text", "noText", "throws"}

\* one iteration of the loop over missingErrorCodes: a failed translation
\* ends the iteration and would end the whole batch here
TranslateNext_abortOnFailure ==
  /\ pc = "translating"
  /\ Len(requests) < Len(missingErrorCodes)
  /\ \E outcome \in Outcomes :
       LET missingCode == missingErrorCodes[Len(requests) + 1]
       IN /\ requests' = Append(requests, [code |-> missingCode.code,
                                           outcome |-> outcome])
          /\ IF outcome = "text"
             THEN /\ translatedErrorCodes' =
                       Append(translatedErrorCodes,
                              [code |-> missingCode.code,
                               message |-> translatedText(missingCode.message),
                               lineNumber |->
                                 findErrorCodeLine(sourceFile, missingCode.code)])
                  /\ translatedCount' = translatedCount + 1
                  /\ UNCHANGED <<errors, pc, result>>
             ELSE /\ errors' = Append(errors, [code |-> missingCode.code,
                                               error |-> outcome])
                  /\ pc' = "done"
                  /\ result' = <<[success |-> FALSE, translated |-> 0,
                                  errors |-> <<[code |-> missingCode.code,
                                                error |-> outcome]>>]>>
                  /\ UNCHANGED <<translatedErrorCodes, translatedCount>>
  /\ UNCHANGED <<sourceFile, targetFile, targetContent, missingErrorCodes>>
  /\ UNCHANGED <<organizeVars, diffVars, parseVars, backupVars, restVars>>

\* one iteration of the loop over missingErrorCodes
TranslateNext ==
  /\ pc = "translating"
  /\ Len(requests) < Len(missingErrorCodes)
  /\ \E outcome \in Outcomes :
       LET missingCode == missingErrorCodes[Len(requests) + 1]
       IN /\ requests' = Append(requests, [code |-> missingCode.code,
                                           outcome |-> outcome])
          /\ IF outcome = "text"
             THEN /\ translatedErrorCodes' =
                       Append(translatedErrorCodes,
                              [code |-> missingCode.code,
                               message |-> translatedText(missingCode.message),
                               lineNumber |->
                                 findErrorCodeLine(sourceFile, missingCode.code)])
                  /\ translatedCount' = translatedCount + 1
                  /\ errors' = errors
             ELSE /\ errors' = Append(errors, [code |-> missingCode.code,
                                               error |-> outcome])
                  /\ UNCHANGED <<translatedErrorCodes, translatedCount>>
  /\ UNCHANGED <<sourceFile, targetFile, pc, targetContent, missingErrorCodes,
                 result>>
  /\ UNCHANGED <<organizeVars, diffVars, parseVars, backupVars, restVars>>

\* translateFile after its loop: sort, write the target, return
TranslateFileFinish ==
  /\ pc = "translating"
  /\ Len(requests) = Len(missingErrorCodes)
  /\ translatedErrorCodes' = sortByLineNumber(translatedErrorCodes)
  /\ targetFile' =
       IF translatedErrorCodes # <<>>
       THEN updateTargetFileWithLineNumber(
              targetContent, sortByLineNumber(translatedErrorCodes))
       ELSE targetFile
  /\ result' = <<[success |-> TRUE, translated |-> translatedCount,
                  errors |-> errors]>>
  /\ pc' = "done"
  /\ UNCHANGED <<sourceFile, targetContent, missingErrorCodes, requests,
                 translatedCount, errors>>
  /\ UNCHANGED <<organizeVars, diffVars, parseVars, backupVars, restVars>>

NextTranslate == TranslateFileStart \/ TranslateNext \/ TranslateFileFinish

SpecTranslate == InitTranslate /\ [][NextTranslate]_vars

\* index of the line translateFile inserted for a translated entry, 0 when
\* the file holds no such line
insertedAt(lines, item) ==
  LET hits == {i \in 1..Len(lines) :
                 lines[i] = InsertLine(item.code, item.message)}
  IN IF hits = {} THEN 0 ELSE CHOOSE i \in hits : \A j \in hits : i <= j

\* C8: when translateFile inserts N translated missing keys whose source
\* line numbers are L1 < L2 < ... < Ln into an existing target file, the
\* written target contains those N keys, in the same relative order as in
\* the source.
C8_InsertedInSourceOrder ==
  ( /\ pc = "done"
    /\ ~isBlankContent(targetContent)
    /\ \A i \in 1..Len(translatedErrorCodes) :
         \A j \in 1..Len(translatedErrorCodes) :
           i < j => translatedErrorCodes[i].lineNumber
                      < translatedErrorCodes[j].lineNumber )
  => /\ \A i \in 1..Len(translatedErrorCodes) :
          insertedAt(targetFile, translatedErrorCodes[i]) > 0
     /\ \A i \in 1..Len(translatedErrorCodes) :
          \A j \in 1..Len(translatedErrorCodes) :
            i < j => insertedAt(targetFile, translatedErrorCodes[i])
                       < insertedAt(targetFile, translatedErrorCodes[j])

failedRequests == SelectSeq(requests, LAMBDA r : r.outcome # "text")

C12_BackupBeforeTranslatedWrite ==
  (pc = "done" /\ translatedErrorCodes # <<>>)
    => \E file \in DOMAIN backups : backups[file] = targetContent

\* the lines of a file that translateFile inserted: they carry a translated
\* message
insertedLines(lines) ==
  {i \in 1..Len(lines) :
     lines[i].kind = "code" /\ lines[i].text[2] = translatedText(lines[i].text[2])}

\* C19: every key that translateFile counts in `translated` is present in
\* the target file it writes: the number of inserted lines equals the
\* reported translated count, for every length of the target.
C19_CountedKeysAreWritten ==
  pc = "done" =>
    /\ Cardinality(insertedLines(targetFile)) = result[1].translated
    /\ \A i \in 1..Len(translatedErrorCodes) :
         findErrorCodeLine(targetFile, translatedErrorCodes[i].code) > 0

-----------------------------------------------------------------------------
(* The backup manager of the translation organizer (src/unnamed/part_000) *)

\* base names (file names without extension) of the locale files, each as
\* the pieces of its name: the source zh.ts and the target zh-TW.ts
SourceBase == <<"zh">>
TargetBases == {<<"zh", "-TW">>}
Bases == {SourceBase} \cup TargetBases

\* a locale file as the developer left it, or as the organizer writes it
Contents == {"raw", "organized"}

\* formatTranslationFile and organizeTargetFile rewrite a file in the
\* organizer's layout
formatTranslationFile(originalContent) == "organized"
organizeTranslationTarget(sourceContent, target) == "organized"

\* generateTimestamp has a resolution of one second
generateTimestamp(t) == ToString(t)

\* `${fileName}_${timestamp}.backup`
BackupName(fileName, t) == fileName \o <<"_", generateTimestamp(t), ".backup">>

AllBackupNames == {BackupName(b, t) : b \in Bases, t \in 1..MaxClock}

\* file.startsWith(fileName) && file.endsWith('.backup')
isBackupOf(file, fileName) ==
  startsWith(file, fileName) /\ file[Len(file)] = ".backup"

shouldCreateBackup(dirExists, dir, fileName) ==
  IF ~dirExists THEN TRUE
  ELSE {file \in DOMAIN dir : isBackupOf(file, fileName)} = {}

\* a backup that would be taken of the file as the organizer rewrites it
writeBackup_ofRewritten(dir, originalContent, fileName, t) ==
  (BackupName(fileName, t) :> formatTranslationFile(originalContent)) @@ dir

\* a write that would leave the new backup as the only file of the directory
writeBackup_replacing(dir, originalContent, fileName, t) ==
  BackupName(fileName, t) :> originalContent

\* fs.writeFileSync(backupPath, content) into the backups directory
writeBackup(dir, originalContent, fileName, t) ==
  (BackupName(fileName, t) :> originalContent) @@ dir

unlink(dir, gone) == [file \in DOMAIN dir \ gone |-> dir[file]]

\* the order in which strings sort, on two names that agree on their
\* first piece: a "-" sorts before "_", timestamps sort by time
pieceRank(piece) ==
  IF piece = "_" THEN MaxClock + 3
  ELSE IF piece = ".backup" THEN MaxClock + 2
  ELSE IF \E t \in 1..MaxClock + 1 : piece = generateTimestamp(t)
    THEN CHOOSE t \in 1..MaxClock + 1 : piece = generateTimestamp(t)
  ELSE 0

sortsBefore(a, b) ==
  \E k \in 1..Len(a) :
    /\ k <= Len(b)
    /\ SubSeq(a, 1, k - 1) = SubSeq(b, 1, k - 1)
    /\ pieceRank(a[k]) < pieceRank(b[k])

\* backupFiles.sort().reverse()[0] of the backups of a file; <<>> if none
latestBackup(dirExists, dir, fileName) ==
  LET backupFiles == {file \in DOMAIN dir : isBackupOf(file, fileName)}
  IN IF ~dirExists \/ backupFiles = {} THEN <<>>
     ELSE CHOOSE file \in backupFiles :
            \A other \in backupFiles : ~sortsBefore(file, other)

\* a lookup that would fall back to the latest backup of the file when the
\* backup asked for does not exist
backupToRestore_fallingBack(dirExists, dir, fileName, specifiedBackupFile) ==
  IF specifiedBackupFile # <<>> /\ specifiedBackupFile \in DOMAIN dir
  THEN specifiedBackupFile
  ELSE latestBackup(dirExists, dir, fileName)

\* the backup a restore reads for a file; <<>> when it has none
backupToRestore(dirExists, dir, fileName, specifiedBackupFile) ==
  IF specifiedBackupFile # <<>>
  THEN (IF specifiedBackupFile \in DOMAIN dir THEN specifiedBackupFile ELSE <<>>)
  ELSE latestBackup(dirExists, dir, fileName)

\* the target files in the order fs.readdirSync lists them
TargetOrders ==
  {order \in [1..Cardinality(TargetBases) -> TargetBases] :
     \A i \in DOMAIN order : \A j \in DOMAIN order :
       order[i] = order[j] => i = j}

\* the state of the disk, while a handler works through the target files
disk == [files |-> files, dirExists |-> backupDirExists, dir |-> backups,
         last |-> lastBackupFile]

\* the body of the loop of handleOrganizeTarget, for each file of the order
RECURSIVE organizeTargets(_, _, _)
organizeTargets(order, d, t) ==
  IF order = <<>> THEN d
  ELSE LET fileName == order[1]
           targetContent_ == d.files[fileName]
           organizedContent ==
             organizeTranslationTarget(d.files[SourceBase], targetContent_)
           should == shouldCreateBackup(d.dirExists, d.dir, fileName)
       IN organizeTargets(Tail(order),
            [files |-> [d.files EXCEPT ![fileName] = organizedContent],
             dirExists |-> d.dirExists \/ should,
             dir |-> IF should
                     THEN writeBackup(d.dir, targetContent_, fileName, t)
                     ELSE d.dir,
             last |-> IF should
                      THEN [d.last EXCEPT ![fileName] = BackupName(fileName, t)]
                      ELSE d.last], t)

InitBackup ==
  /\ files \in [Bases -> Contents]
  /\ backupDirExists = FALSE
  /\ backups = <<>>
  /\ now = 1
  /\ lastBackupFile = [b \in Bases |-> <<>>]
  /\ reply = <<>>
  /\ organizeUnused /\ diffUnused /\ parseUnused /\ translateUnused
  /\ restUnused

otherVars == <<organizeVars, diffVars, parseVars, translateVars, restVars>>

\* a second passes
Tick ==
  /\ now < MaxClock
  /\ now' = now + 1
  /\ UNCHANGED <<files, backupDirExists, backups, lastBackupFile, reply,
                 otherVars>>

\* the page of the panel takes the message that was posted to it; the
\* panel sends its next command after that
panelReceivesReply ==
  /\ reply # <<>>
  /\ reply' = <<>>
  /\ UNCHANGED <<files, backupDirExists, backups, now, lastBackupFile,
                 otherVars>>

handleOrganizeSource ==
  LET originalContent == files[SourceBase]
      should == shouldCreateBackup(backupDirExists, backups, SourceBase)
  IN /\ reply = <<>>
     /\ backups' = IF should
                   THEN writeBackup(backups, originalContent, SourceBase, now)
                   ELSE backups
     /\ backupDirExists' = (backupDirExists \/ should)
     /\ lastBackupFile' =
          IF should
          THEN [lastBackupFile EXCEPT ![SourceBase] = BackupName(SourceBase, now)]
          ELSE lastBackupFile
     /\ files' = [files EXCEPT
                    ![SourceBase] = formatTranslationFile(originalContent)]
     /\ reply' = [command |-> "organizeSourceResult", success |-> TRUE]
     /\ UNCHANGED <<now, otherVars>>

handleOrganizeTarget ==
  \E order \in TargetOrders :
    LET d == organizeTargets(order, disk, now)
    IN /\ reply = <<>>
       /\ files' = d.files
       /\ backupDirExists' = d.dirExists
       /\ backups' = d.dir
       /\ lastBackupFile' = d.last
       /\ reply' = [command |-> "organizeTargetResult", success |-> TRUE]
       /\ UNCHANGED <<now, otherVars>>

handleBackupSource ==
  /\ reply = <<>>
  /\ backups' = writeBackup(backups, files[SourceBase], SourceBase, now)
  /\ backupDirExists' = TRUE
  /\ reply' = [command |-> "backupSourceResult", success |-> TRUE]
  /\ UNCHANGED <<files, now, lastBackupFile, otherVars>>

handleBackupTarget ==
  /\ reply = <<>>
  /\ backups' =
       [file \in {BackupName(b, now) : b \in TargetBases} |->
          files[CHOOSE b \in TargetBases : BackupName(b, now) = file]]
         @@ backups
  /\ backupDirExists' = TRUE
  /\ reply' = [command |-> "backupTargetResult", success |-> TRUE]
  /\ UNCHANGED <<files, now, lastBackupFile, otherVars>>

\* message.backupFile: a backup picked from the list, or none
SpecifiedBackupFiles == AllBackupNames \cup {<<>>}

\* the statuses and messages of the restore replies:
\*   '备份文件不存在' (the backup file does not exist), '已还原' (restored),
\*   '还原失败' (restore failed), '无备份文件' (no backup file)
BackupMissing == "beifenwenjianbucunzai"
Restored == "yihuanyuan"
RestoreFailed == "huanyuanshibai"
NoBackupFile == "wubeifenwenjian"

\* a restore that would answer with success and leave the source as it was
restoreSource_keeping(specifiedBackupFile, ioFails) ==
  LET backupPath == backupToRestore(backupDirExists, backups, SourceBase,
                                    specifiedBackupFile)
  IN /\ reply = <<>>
     /\ files' = files
     /\ reply' =
          IF backupPath = <<>>
          THEN [command |-> "restoreSourceResult", success |-> FALSE,
                message |-> BackupMissing]
          ELSE [command |-> "restoreSourceResult", success |-> TRUE,
                backupFile |-> backupPath]
     /\ UNCHANGED <<backupDirExists, backups, now, lastBackupFile, otherVars>>

\* handleRestoreSource for one message.backupFile; ioFails: reading the
\* backup or writing the source throws
restoreSource(specifiedBackupFile, ioFails) ==
  LET backupPath == backupToRestore(backupDirExists, backups, SourceBase,
                                    specifiedBackupFile)
  IN /\ reply = <<>>
     /\ files' = IF backupPath # <<>> /\ ~ioFails
                 THEN [files EXCEPT ![SourceBase] = backups[backupPath]]
                 ELSE files
     /\ reply' =
          IF backupPath = <<>>
          THEN [command |-> "restoreSourceResult", success |-> FALSE,
                message |-> BackupMissing]
          ELSE IF ioFails
            THEN [command |-> "restoreSourceResult", success |-> FALSE,
                  message |-> RestoreFailed]
          ELSE [command |-> "restoreSourceResult", success |-> TRUE,
                backupFile |-> backupPath]
     /\ UNCHANGED <<backupDirExists, backups, now, lastBackupFile, otherVars>>

handleRestoreSource ==
  \E specifiedBackupFile \in SpecifiedBackupFiles : \E ioFails \in BOOLEAN :
    restoreSource(specifiedBackupFile, ioFails)

\* the result entry handleRestoreTarget pushes for one target file
restoreResult(fileName, backupPath, ioFails) ==
  IF backupPath = <<>> THEN [name |-> fileName, status |-> NoBackupFile]
  ELSE IF ioFails THEN [name |-> fileName, status |-> RestoreFailed]
  ELSE [name |-> fileName, status |-> Restored, backupFile |-> backupPath]

\* handleRestoreTarget for one message.backupFile, over the target files in
\* the order of the directory listing; failing: the files whose restore
\* throws
restoreTarget(specifiedBackupFile, order, failing) ==
  /\ reply = <<>>
  /\ files' =
       [b \in Bases |->
          LET backupPath == backupToRestore(backupDirExists, backups, b,
                                            specifiedBackupFile)
          IN IF b \in TargetBases /\ backupPath # <<>> /\ b \notin failing
             THEN backups[backupPath] ELSE files[b]]
  /\ reply' =
       [command |-> "restoreTargetResult", success |-> TRUE,
        results |->
          [i \in DOMAIN order |->
             restoreResult(order[i],
                           backupToRestore(backupDirExists, backups, order[i],
                                           specifiedBackupFile),
                           order[i] \in failing)]]
  /\ UNCHANGED <<backupDirExists, backups, now, lastBackupFile, otherVars>>

handleRestoreTarget ==
  \E specifiedBackupFile \in SpecifiedBackupFiles :
    \E order \in TargetOrders : \E failing \in SUBSET TargetBases :
      restoreTarget(specifiedBackupFile, order, failing)

handleCleanBackupSource ==
  \E specifiedBackupFile \in SpecifiedBackupFiles :
    /\ reply = <<>>
    /\ backups' =
         IF ~backupDirExists THEN backups
         ELSE IF specifiedBackupFile # <<>>
           THEN unlink(backups, {specifiedBackupFile})
         ELSE unlink(backups,
                     {file \in DOMAIN backups : isBackupOf(file, SourceBase)})
    /\ reply' = [command |-> "cleanBackupSourceResult", success |-> TRUE]
    /\ UNCHANGED <<files, backupDirExists, now, lastBackupFile, otherVars>>

handleCleanBackupTarget ==
  \E specifiedBackupFile \in SpecifiedBackupFiles :
    /\ reply = <<>>
    /\ backups' =
         IF ~backupDirExists THEN backups
         ELSE IF specifiedBackupFile # <<>>
           THEN unlink(backups, {specifiedBackupFile})
         ELSE unlink(backups,
                     {file \in DOMAIN backups :
                        \E b \in TargetBases : isBackupOf(file, b)})
    /\ reply' = [command |-> "cleanBackupTargetResult", success |-> TRUE]
    /\ UNCHANGED <<files, backupDirExists, now, lastBackupFile, otherVars>>

NextBackup ==
  \/ Tick
  \/ panelReceivesReply
  \/ handleOrganizeSource
  \/ handleOrganizeTarget
  \/ handleBackupSource
  \/ handleBackupTarget
  \/ handleRestoreSource
  \/ handleRestoreTarget
  \/ handleCleanBackupSource
  \/ handleCleanBackupTarget

SpecBackup == InitBackup /\ [][NextBackup]_vars

\* the backups directory holds no file named fileName_<timestamp>.backup
noBackupNamed(dir, fileName) ==
  \A t \in 1..MaxClock : BackupName(fileName, t) \notin DOMAIN dir

\* C10: with no backup for a base name shouldCreateBackup returns true;
\* after one createBackupFile for that base name every later call returns
\* false, through any sequence of organize, manual-backup and restore
\* operations, until that backup file is deleted by a clean command, after
\* which it returns true again.
C10_BackupGuardOverTime ==
  [][\A b \in Bases :
       /\ noBackupNamed(backups', b)
            => shouldCreateBackup(backupDirExists', backups', b)
       /\ lastBackupFile'[b] \in DOMAIN backups'
            => ~shouldCreateBackup(backupDirExists', backups', b)
       /\ (lastBackupFile[b] \in DOMAIN backups
             /\ lastBackupFile[b] \notin DOMAIN backups')
            => shouldCreateBackup(backupDirExists', backups', b)]_vars

\* C11: shouldCreateBackup(dir, baseName) returns true exactly when the
\* backups directory holds no file named baseName_<timestamp>.backup; the
\* backup files of another base name never make it return false.
C11_GuardMatchesBaseName ==
  \A b \in Bases :
    shouldCreateBackup(backupDirExists, backups, b) <=> noBackupNamed(backups, b)


\* C13: backups are never auto-deleted: a step that is not one of the
\* explicit clean commands (an organize, a manual backup, a restore) leaves
\* every backup file that was present before it present after it.
C13_NeverAutoDeleted ==
  [][\/ DOMAIN backups \subseteq DOMAIN backups'
     \/ handleCleanBackupSource
     \/ handleCleanBackupTarget]_vars

\* a later backup was written while an earlier one of the same file stayed
C13_Witness ==
  \E b \in Bases :
    \E t1 \in 1..MaxClock, t2 \in 1..MaxClock :
      /\ t1 < t2
      /\ BackupName(b, t1) \in DOMAIN backups
      /\ BackupName(b, t2) \in DOMAIN backups


\* C14: after a successful restore of a source backup the live source
\* file's content is identical to the content of the backup file the reply
\* names (overwrite, no merge), and that backup file is unchanged.
C14_RestoreSourceOverwrites ==
  [][(/\ reply' # <<>>
      /\ reply'.command = "restoreSourceResult"
      /\ reply'.success
      /\ handleRestoreSource)
       => /\ reply'.backupFile \in DOMAIN backups
          /\ files'[SourceBase] = backups[reply'.backupFile]
          /\ reply'.backupFile \in DOMAIN backups'
          /\ backups'[reply'.backupFile] = backups[reply'.backupFile]]_vars

\* the source was organized, which made its first backup, and was then
\* restored from that backup to the content it had before
C14_Witness ==
  /\ reply # <<>>
  /\ reply.command = "restoreSourceResult"
  /\ reply.success
  /\ reply.backupFile = lastBackupFile[SourceBase]
  /\ backups[reply.backupFile] = "raw"
  /\ files[SourceBase] = "raw"

\* C15: restoring from a backup path that does not exist reports a failure
\* result to the caller (the failure reply of the source restore, a 'no
\* backup file' entry for every target file of the target restore) without
\* throwing, and leaves every live file unchanged.
C15_RestoreFromMissingBackup ==
  [][\A specifiedBackupFile \in AllBackupNames \ DOMAIN backups :
       /\ (/\ reply' # <<>>
           /\ reply'.command = "restoreSourceResult"
           /\ \E ioFails \in BOOLEAN :
                restoreSource(specifiedBackupFile, ioFails))
            => /\ ~reply'.success
               /\ reply'.message = BackupMissing
               /\ files' = files
       /\ (/\ reply' # <<>>
           /\ reply'.command = "restoreTargetResult"
           /\ \E order \in TargetOrders : \E failing \in SUBSET TargetBases :
                restoreTarget(specifiedBackupFile, order, failing))
            => /\ Len(reply'.results) = Cardinality(TargetBases)
               /\ \A i \in DOMAIN reply'.results :
                    reply'.results[i].status = NoBackupFile
               /\ files' = files]_vars

\* the directory holds backups, and a source restore was asked for one that
\* it does not hold
C15_Witness ==
  /\ reply # <<>>
  /\ reply.command = "restoreSourceResult"
  /\ ~reply.success
  /\ reply.message = BackupMissing
  /\ \E file \in DOMAIN backups : isBackupOf(file, SourceBase)


\* the backup an organize has just created for a file, if it created one
autoBackupOf(fileName) ==
  IF BackupName(fileName, now) \in DOMAIN backups' \ DOMAIN backups
  THEN BackupName(fileName, now) ELSE <<>>

\* C25: when organize auto-creates a backup, the backup holds the content
\* the file had immediately before the organize rewrote it, and restoring
\* that backup next returns the live file to that content.
C25_AutoBackupRestoresOriginal ==
  [][/\ (reply' # <<>> /\ reply'.command = "organizeSourceResult"
           /\ autoBackupOf(SourceBase) # <<>>)
          => /\ backups'[autoBackupOf(SourceBase)] = files[SourceBase]
             /\ lastBackupFile'[SourceBase] = autoBackupOf(SourceBase)
     /\ (reply' # <<>> /\ reply'.command = "organizeTargetResult")
          => \A b \in TargetBases :
               autoBackupOf(b) # <<>>
                 => /\ backups'[autoBackupOf(b)] = files[b]
                    /\ lastBackupFile'[b] = autoBackupOf(b)
     /\ (reply' # <<>> /\ reply'.command = "restoreSourceResult"
           /\ lastBackupFile[SourceBase] \in DOMAIN backups
           /\ restoreSource(lastBackupFile[SourceBase], FALSE))
          => files'[SourceBase] = backups[lastBackupFile[SourceBase]]
     /\ (reply' # <<>> /\ reply'.command = "restoreTargetResult")
          => \A b \in TargetBases :
               (lastBackupFile[b] \in DOMAIN backups
                  /\ \E order \in TargetOrders :
                       restoreTarget(lastBackupFile[b], order, {}))
                 => files'[b] = backups[lastBackupFile[b]]]_vars

\* a target file that the organizer rewrote holds its earlier content
\* again, restored from the backup that organize created for it
C25_Witness ==
  /\ reply # <<>> /\ reply.command = "restoreTargetResult"
  /\ \E b \in TargetBases :
       /\ lastBackupFile[b] \in DOMAIN backups
       /\ backups[lastBackupFile[b]] = "raw"
       /\ files[b] = "raw"
       /\ \E i \in DOMAIN reply.results :
            /\ reply.results[i].status = Restored
            /\ reply.results[i].backupFile = lastBackupFile[b]

\* C26: a backup file's content never changes after it is created: every
\* later auto-backup or manual backup creates a new backup file and never
\* overwrites an existing one, also when two backups of the same file are
\* taken within the same second.
C26_BackupsNeverOverwritten ==
  [][\A file \in DOMAIN backups \cap DOMAIN backups' :
       backups'[file] = backups[file]]_vars

-----------------------------------------------------------------------------
(* handleOrganizeTargetFiles of src/src/commands/errorCode/fileOrganize.ts,
   with the errors of the file system *)

\* errorCodeExecFile "en.js,fr.js": the configured target files, by base name
ExecFile == << <<"en">>, <<"fr">> >>
ExecFileNames == {ExecFile[i] : i \in DOMAIN ExecFile}

\* a configured file that is not on the disk
Absent == "absent"

\* the call of the handler that throws for a file, if any: readFileSync,
\* copyFileSync into the backups directory, writeFileSync
Faults == {"none", "read", "copy", "write"}

organizeTargetFile(targetFileContent, sourceContent) == "organized"

\* getTargetFiles: the configured files that exist, in configured order
getTargetFiles(d) == SelectSeq(ExecFile, LAMBDA f : d[f] # Absent)

\* the files for which the backups directory holds no backup
filesNeedingBackup(d, dir) ==
  SelectSeq(getTargetFiles(d),
            LAMBDA f : {file \in DOMAIN dir : isBackupOf(file, f)} = {})

\* the backup loop: copies file after file and stops at the first copy that
\* throws; thrown tells whether one did
RECURSIVE copyBackups(_, _, _, _, _)
copyBackups(needing, d, dir, t, faults) ==
  IF needing = <<>> THEN [dir |-> dir, thrown |-> FALSE]
  ELSE IF faults[needing[1]] = "copy" THEN [dir |-> dir, thrown |-> TRUE]
  ELSE copyBackups(Tail(needing), d,
                   (BackupName(needing[1], t) :> d[needing[1]]) @@ dir,
                   t, faults)

\* the organize loop: one result entry per file of getTargetFiles
RECURSIVE organizeLoop(_, _, _, _)
organizeLoop(targetFiles, d, results, faults) ==
  IF targetFiles = <<>> THEN [files |-> d, results |-> results]
  ELSE LET f == targetFiles[1]
       IN IF faults[f] \in {"read", "write"}
          THEN organizeLoop(Tail(targetFiles), d,
                            Append(results, [file |-> f, success |-> FALSE]),
                            faults)
          ELSE organizeLoop(Tail(targetFiles),
                            [d EXCEPT ![f] = organizeTargetFile(d[f], "raw")],
                            Append(results, [file |-> f, success |-> TRUE]),
                            faults)

organizeTargetFiles(faults) ==
  LET copied == copyBackups(filesNeedingBackup(files, backups), files,
                            backups, now, faults)
      organized == organizeLoop(getTargetFiles(files), files, <<>>, faults)
  IN /\ reply = <<>>
     /\ backupDirExists' = TRUE
     /\ backups' = copied.dir
     /\ files' = IF copied.thrown THEN files ELSE organized.files
     /\ reply' = IF copied.thrown
                 THEN [command |-> "organizeResult", success |-> FALSE]
                 ELSE [command |-> "organizeResult", success |-> TRUE,
                       results |-> organized.results]
     /\ UNCHANGED <<now, lastBackupFile, otherVars>>

handleOrganizeTargetFiles ==
  \E faults \in [ExecFileNames -> Faults] : organizeTargetFiles(faults)

InitOrganizeTargets ==
  /\ files \in [ExecFileNames -> Contents \cup {Absent}]
  /\ backupDirExists = FALSE
  /\ backups = <<>>
  /\ now = 1
  /\ lastBackupFile = <<>>
  /\ reply = <<>>
  /\ organizeUnused /\ diffUnused /\ parseUnused /\ translateUnused
  /\ restUnused

NextOrganizeTargets ==
  \/ Tick
  \/ panelReceivesReply
  \/ handleOrganizeTargetFiles

SpecOrganizeTargets == InitOrganizeTargets /\ [][NextOrganizeTargets]_vars

\* the reply carries a result entry for the file, with this success flag
hasEntry(message, f, flag) ==
  /\ "results" \in DOMAIN message
  /\ \E i \in DOMAIN message.results :
       message.results[i].file = f /\ message.results[i].success = flag

\* C16: in a batch organize of the target files a failure on one file (a
\* missing file, a read, backup-copy or write error) is recorded in the
\* result entry of that file and does not keep the other files from being
\* organized; the reply is a success that carries the per-file list.
C16_FailuresStayPerFile ==
  [][\A faults \in [ExecFileNames -> Faults] :
       (reply' # <<>> /\ reply'.command = "organizeResult"
          /\ organizeTargetFiles(faults))
         => /\ reply'.success
            /\ \A f \in ExecFileNames :
                 /\ files[f] = Absent => hasEntry(reply', f, FALSE)
                 /\ (files[f] # Absent /\ faults[f] \in {"read", "write"})
                      => hasEntry(reply', f, FALSE)
                 /\ (files[f] # Absent /\ faults[f] = "none")
                      => /\ hasEntry(reply', f, TRUE)
                         /\ files'[f] = organizeTargetFile(files[f], "raw")]_vars


-----------------------------------------------------------------------------
(* translateWithFallback of src/src/utils/translator.ts *)

MaxTextLen == 2

\* the pieces a text of the service is made of: a word, a blank, the error
\* texts of the service, and the text 'undefined'
TextTokens ==
  {"hola", " ", "INVALID TARGET LANGUAGE", "INVALID SOURCE LANGUAGE",
   "LANGPAIR=", "undefined"}

Texts == UNION {[1..n -> TextTokens] : n \in 0..MaxTextLen}

\* the answer to fetch(url): the request is rejected, or a response arrives
\* with response.ok, and in its body responseStatus, responseDetails and
\* responseData, which is <<>> without a translatedText
Responses ==
  {[kind |-> "rejected"]} \cup
  [kind : {"answered"}, ok : BOOLEAN, responseStatus : {200, 403},
   responseDetails : {<<>>, <<"INVALID TARGET LANGUAGE">>, <<"LANGPAIR=">>},
   responseData : {<<>>} \cup {<<t>> : t \in Texts}]

RECURSIVE trimStart(_)
trimStart(text) ==
  IF text # <<>> /\ text[1] = " " THEN trimStart(Tail(text)) ELSE text

RECURSIVE trimEnd(_)
trimEnd(text) ==
  IF text # <<>> /\ text[Len(text)] = " "
  THEN trimEnd(SubSeq(text, 1, Len(text) - 1)) ELSE text

trim(text) == trimEnd(trimStart(text))

\* a check that would let every text pass
containsErrorText_never(text) == FALSE

\* the test both functions make on the translated text
containsErrorText(text) ==
  \/ includes(text, "INVALID TARGET LANGUAGE")
  \/ includes(text, "INVALID SOURCE LANGUAGE")
  \/ includes(text, "LANGPAIR=")

Thrown == [status |-> "thrown"]

myMemoryTranslate(resp) ==
  IF resp.kind = "rejected" THEN Thrown
  ELSE IF ~resp.ok THEN Thrown
  ELSE IF resp.responseStatus = 403 THEN Thrown
  ELSE IF /\ resp.responseStatus = 200
          /\ resp.responseDetails # <<>>
          /\ \/ includes(resp.responseDetails, "INVALID TARGET LANGUAGE")
             \/ includes(resp.responseDetails, "INVALID SOURCE LANGUAGE")
    THEN Thrown
  ELSE IF resp.responseData = <<>> \/ resp.responseData[1] = <<>> THEN Thrown
  ELSE IF containsErrorText(resp.responseData[1]) THEN Thrown
  ELSE [status |-> "returned", text |-> resp.responseData[1]]

translateWithFallbackOf(resp) ==
  LET translated == myMemoryTranslate(resp)
  IN IF translated.status = "thrown" THEN Thrown
     ELSE IF /\ translated.text # <<>>
             /\ trim(translated.text) # <<>>
             /\ translated.text # <<"undefined">>
       THEN (IF containsErrorText(translated.text) THEN Thrown
             ELSE [status |-> "returned", text |-> translated.text,
                   service |-> "mymemory"])
     ELSE Thrown

InitTranslator ==
  /\ response \in Responses
  /\ translation = <<>>
  /\ panelUnused /\ addUnused /\ batchUnused /\ configUnused /\ pureUnused
  /\ organizeUnused /\ diffUnused /\ parseUnused /\ translateUnused
  /\ backupUnused

translateWithFallback ==
  /\ translation = <<>>
  /\ translation' = translateWithFallbackOf(response)
  /\ UNCHANGED <<response, panelVars, addVars, batchVars, configVars,
                 pureVars>>
  /\ UNCHANGED <<organizeVars, diffVars, parseVars, translateVars, backupVars>>

NextTranslator == translateWithFallback

SpecTranslator == InitTranslator /\ [][NextTranslator]_vars

-----------------------------------------------------------------------------
(* handleAddErrorCodes of ErrorCodeAddCommand (src/unnamed/part_003) *)

MaxAddLines == 3
MaxNewCodes == 2

\* an error-code line without the trailing comma
LastCodeLine(c) ==
  [kind |-> "code", text |-> <<"\"code\":", "\"message\"">>, code |-> c]

\* the codes "2", "10" and "100": their order as numbers is not their
\* order as strings
AddCodes == {<<2>>, <<1, 0>>, Code100}

AddLines ==
  {DeclLine, CloseLine, BlankLine, SectionLine(SysComment)}
    \cup {CodeLine(c) : c \in AddCodes} \cup {LastCodeLine(c) : c \in AddCodes}

\* the error codes the panel sends
NewErrorCodes ==
  UNION {[1..n -> [code : AddCodes, message : {"message"}]] :
           n \in 1..MaxNewCodes}

\* the numbers of the error-code lines of the file
existingCodeSet(lines) ==
  {parseInt(lines[i].code) : i \in {j \in 1..Len(lines) : lines[j].kind = "code"}}

\* the new error codes of processErrorCodes, sorted by number
processErrorCodes(lines, errorCodes) ==
  sortByCode(SelectSeq(errorCodes,
                       LAMBDA e : parseInt(e.code) \notin existingCodeSet(lines)))

\* the existingCodes of processErrorCodes, in the order of the message
existingCodesOf(lines, errorCodes) ==
  SelectSeq(errorCodes,
            LAMBDA e : parseInt(e.code) \in existingCodeSet(lines))

\* an insert position that would always be the end of the entries
findInsertPosition_atEnd(lines, newCode) ==
  LET last == {i \in 1..Len(lines) : lines[i].kind \in {"decl", "code"}}
  IN IF last = {} THEN Len(lines)
     ELSE CHOOSE i \in last : \A j \in last : j <= i

\* the index, counted from 0, at which the new code is spliced in
findInsertPosition(lines, newCode) ==
  LET larger == {i \in 1..Len(lines) :
                   /\ lines[i].kind = "code"
                   /\ parseInt(newCode) < parseInt(lines[i].code)}
      last == {i \in 1..Len(lines) :
                 lines[i].kind \notin {"blank", "close", "section"}}
  IN IF larger # {} THEN (CHOOSE i \in larger : \A j \in larger : i <= j) - 1
     ELSE IF last # {} THEN CHOOSE i \in last : \A j \in last : j <= i
     ELSE Len(lines)

\* from the insert position on, a "}" comes before any error-code line
isLastErrorCode(lines, insertIndex) ==
  LET stops == {i \in insertIndex + 1..Len(lines) :
                  lines[i].kind \in {"close", "code"}}
  IN IF stops = {} THEN TRUE
     ELSE lines[CHOOSE i \in stops : \A j \in stops : i <= j].kind = "close"

\* lines.splice(insertIndex, 0, errorCodeLine)
splice(lines, insertIndex, line) ==
  SubSeq(lines, 1, insertIndex) \o <<line>>
    \o SubSeq(lines, insertIndex + 1, Len(lines))

ensurePreviousComma(lines, insertIndex) ==
  IF insertIndex > 0 /\ lines[insertIndex] \in {LastCodeLine(c) : c \in AddCodes}
  THEN [lines EXCEPT ![insertIndex] = CodeLine(lines[insertIndex].code)]
  ELSE lines

RECURSIVE insertErrorCodes(_, _)
insertErrorCodes(lines, newErrorCodes) ==
  IF newErrorCodes = <<>> THEN lines
  ELSE LET insertIndex == findInsertPosition(lines, newErrorCodes[1].code)
           errorCodeLine ==
             IF isLastErrorCode(lines, insertIndex)
             THEN LastCodeLine(newErrorCodes[1].code)
             ELSE CodeLine(newErrorCodes[1].code)
       IN insertErrorCodes(
            ensurePreviousComma(splice(lines, insertIndex, errorCodeLine),
                                insertIndex),
            Tail(newErrorCodes))

\* the line number, counted from 1, of the first line that holds the code;
\* 0 if there is none
findAddedErrorCodeLine(lines, code) ==
  LET hits == {i \in 1..Len(lines) :
                 lines[i].kind = "code" /\ lines[i].code = code}
  IN IF hits = {} THEN 0 ELSE CHOOSE i \in hits : \A j \in hits : i <= j

\* one call of the handler for the error codes of a message
addErrorCodes(errorCodes) ==
  LET newErrorCodes == processErrorCodes(content, errorCodes)
      lines == insertErrorCodes(content, newErrorCodes)
  IN /\ runs = 0
     /\ content' = lines
     /\ original' = content
     /\ runs' = runs + 1
     /\ added' = [i \in 1..Len(newErrorCodes) |->
                    [code |-> newErrorCodes[i].code,
                     lineNumber |->
                       findAddedErrorCodeLine(lines, newErrorCodes[i].code)]]
     /\ addResult' =
          [errorCodes |-> errorCodes,
           stats |-> [added |-> Len(newErrorCodes),
                      exists |-> Len(existingCodesOf(content, errorCodes)),
                      failed |-> 0],
           exists |-> existingCodesOf(content, errorCodes)]
     /\ UNCHANGED <<diffVars, parseVars, translateVars, backupVars,
                    translatorVars, panelVars, batchVars, configVars,
                    pureVars>>

handleAddErrorCodes == \E errorCodes \in NewErrorCodes : addErrorCodes(errorCodes)

InitAdd ==
  /\ content \in FilesUpTo(AddLines, MaxAddLines)
  /\ original = content
  /\ runs = 0
  /\ added = <<>>
  /\ addResult = <<>>
  /\ diffUnused /\ parseUnused /\ translateUnused /\ backupUnused
  /\ translatorUnused /\ panelUnused /\ batchUnused /\ configUnused
  /\ pureUnused

NextAdd == handleAddErrorCodes

SpecAdd == InitAdd /\ [][NextAdd]_vars

\* the codes of the error-code lines of a file, in the order of the lines
codeLinesOf(lines) ==
  LET codeLines == SelectSeq(lines, LAMBDA line : line.kind = "code")
  IN [i \in 1..Len(codeLines) |-> codeLines[i].code]

\* C18: handleAddErrorCodes inserts new codes in numeric order: when the
\* error-code lines of the source file are in ascending numeric order
\* before the call, all error-code lines, every newly added one included,
\* are in ascending numeric order after it.
C18_AddKeepsAscending ==
  (runs >= 1 /\ ascending(codeLinesOf(original)))
    => /\ ascending(codeLinesOf(content))
       /\ \A i \in DOMAIN added :
            /\ added[i].lineNumber \in 1..Len(content)
            /\ content[added[i].lineNumber].kind = "code"
            /\ content[added[i].lineNumber].code = added[i].code

\* a new code went between two error-code lines of a sorted file
C18_Witness ==
  /\ runs >= 1
  /\ Len(added) = 1
  /\ ascending(codeLinesOf(original))
  /\ Len(content) = Len(original) + 1
  /\ \E i \in 2..Len(content) - 1 :
       /\ content[i].kind = "code"
       /\ content[i - 1].kind = "code"
       /\ content[i + 1].kind = "code"
       /\ parseInt(content[i].code) \notin existingCodeSet(original)

\* no code stands on two error-code lines of the file
uniqueCodes(lines) ==
  \A i \in DOMAIN lines : \A j \in DOMAIN lines :
    (lines[i].kind = "code" /\ lines[j].kind = "code"
       /\ lines[i].code = lines[j].code) => i = j

\* C29: handleAddErrorCodes keeps codes unique: when no code occurs twice
\* in the source file before the call, none occurs twice after it, for
\* every submitted list; a submitted code that is already in the file is
\* reported as existing and not inserted, and added + exists equals the
\* number of submitted codes.
C29_AddKeepsUnique ==
  runs >= 1 =>
    /\ uniqueCodes(original) => uniqueCodes(content)
    /\ \A i \in DOMAIN addResult.errorCodes :
         LET code == addResult.errorCodes[i].code
         IN parseInt(code) \in existingCodeSet(original)
              => /\ \E k \in DOMAIN addResult.exists :
                      addResult.exists[k].code = code
                 /\ \A k \in DOMAIN added : added[k].code # code
                 /\ count(codeLinesOf(content), code)
                      = count(codeLinesOf(original), code)
    /\ addResult.stats.added + addResult.stats.exists
         = Len(addResult.errorCodes)

\* ---- the closing line of the errCode object -----------------------------

\* an export statement after the object
ExportLine ==
  [kind |-> "other", text |-> <<"export", "default", "errCode", ";">>,
   code |-> <<>>]

\* the error-code lines of an object that holds the codes of a set, in
\* ascending order, the last one without a comma
RECURSIVE objectBody(_)
objectBody(codes) ==
  IF codes = {} THEN <<>>
  ELSE LET least == CHOOSE c \in codes :
                      \A e \in codes : parseInt(c) <= parseInt(e)
       IN IF codes = {least} THEN <<LastCodeLine(least)>>
          ELSE <<CodeLine(least)>> \o objectBody(codes \ {least})

Closings == {CloseLine, CloseStatementLine}
Tails == {<<>>, <<ExportLine>>, <<BlankLine, ExportLine>>}

\* well-formed source files: the opening line, the entries, the closing
\* line and what follows it
ClosedFiles ==
  {<<DeclLine>> \o objectBody(codes) \o <<closing>> \o tail :
     codes \in SUBSET AddCodes, closing \in Closings, tail \in Tails}

InitAddClosing ==
  /\ content \in ClosedFiles
  /\ original = <<>>
  /\ runs = 0
  /\ added = <<>>
  /\ addResult = <<>>
  /\ diffUnused
  /\ parseUnused
  /\ translateUnused
  /\ backupUnused
  /\ translatorUnused
  /\ panelUnused
  /\ batchUnused
  /\ configUnused
  /\ pureUnused

NextAddClosing == handleAddErrorCodes
SpecAddClosing == InitAddClosing /\ [][NextAddClosing]_vars

\* the index of the opening line and of the closing line of the object
openingOf(lines) ==
  CHOOSE i \in DOMAIN lines : lines[i] = DeclLine
closingOf(lines) ==
  CHOOSE i \in DOMAIN lines : lines[i] \in Closings

\* C30: handleAddErrorCodes puts every new code line between the opening
\* line and the closing brace of the errCode object, whatever the closing
\* line is ("}" or "};") and whatever follows it (nothing or an export
\* statement).
C30_InsertedInsideObject ==
  runs >= 1 =>
    \A i \in DOMAIN content :
      content[i].kind = "code"
        => openingOf(content) < i /\ i < closingOf(content)


-----------------------------------------------------------------------------
(* The panels of the batch translate and of the file organizer, on the same
   files: fillPanel of src/src/commands/errorCode/batchTranslate.ts and of
   src/src/commands/errorCode/fileOrganize.ts *)

MaxMessages == 1

\* translateFile is waiting for translateWithFallback: the event loop is
\* free to deliver the next message
awaitingTranslation ==
  pc = "translating" /\ Len(requests) < Len(missingErrorCodes)

\* the last translation is back and translateFile runs on to its return
runningToCompletion ==
  pc = "translating" /\ Len(requests) = Len(missingErrorCodes)

\* errorCodeSourceFile 'zh-CN.js'
ErrorCodeSourceBase == <<"zh", "-CN">>

\* the message organizeSourceFile arrives at the panel of the organizer:
\* the handler backs the source up when backups/source is missing or
\* empty, organizes the file and writes it back
handleOrganizeSourceFile ==
  /\ Len(messages) < MaxMessages
  /\ ~runningToCompletion
  /\ messages' = Append(messages, "organizeSourceFile")
  /\ backupDirExists' = TRUE
  /\ backups' = IF ~backupDirExists \/ backups = <<>>
                THEN BackupName(ErrorCodeSourceBase, now) :> sourceFile
                ELSE backups
  /\ sourceFile' = organizeSourceFile(sourceFile)
  /\ reply' = [command |-> "organizeResult", success |-> TRUE]
  /\ UNCHANGED <<targetFile, pc, targetContent, missingErrorCodes, requests,
                 translatedErrorCodes, translatedCount, errors, result>>
  /\ UNCHANGED <<files, now, lastBackupFile>>
  /\ UNCHANGED <<organizeVars, diffVars, parseVars, translatorVars, addVars,
                 batchVars, configVars, pureVars>>

InitPanel == InitTranslate

NextPanel ==
  \/ TranslateFileStart
  \/ TranslateNext
  \/ TranslateFileFinish
  \/ handleOrganizeSourceFile

SpecPanel == InitPanel /\ [][NextPanel]_vars

\* C20: the handlers of panel messages never interleave: a message that
\* arrives while an earlier handler is awaiting a translation is handled,
\* and its files read or written, only after the earlier handler has
\* completed.
C20_HandlersNeverInterleave ==
  [][Len(messages') > Len(messages) => ~awaitingTranslation]_vars


-----------------------------------------------------------------------------
(* handleStartTranslate and translateFile of the batch translators, one
   step per stretch of code between two awaits
   (src/src/commands/errorCode/batchTranslate.ts; the same loops are in
   src/src/commands/translate/batchTranslate.ts) *)

MaxBatchFiles == 2
MaxBatchCodes == 2

\* the names readdirSync lists next to the source file
BatchFileNames == <<"en-US.js", "ja-JP.js", "th-TH.js">>
BatchCodes == <<Code100, Code1002000000, Code1003000000>>

\* the source file: the declaration, some error codes, the close
BatchSourceFiles ==
  {<<DeclLine>> \o [i \in 1..n |-> CodeLine(BatchCodes[i])] \o <<CloseLine>> :
     n \in 0..MaxBatchCodes}

\* a target file: an empty one, one with no code yet, one with a code
BatchTargetFiles ==
  {<<>>, <<DeclLine, CloseLine>>,
   <<DeclLine, CodeLine(BatchCodes[1]), CloseLine>>}

\* a request of translateWithFallback, a message posted to the panel
Event(kind, file, code) == [kind |-> kind, file |-> file, code |-> code]
Post(message) == events' = Append(events, message)

\* targetFile.name of the file the for loop is at
batchFileName == batchTargets[fileIndex].name

\* the codes of the source that the target does not hold yet
missingOf(sourceErrorCodes, targetLines) ==
  LET existingErrorCodes == parseErrorCodes(targetLines)
  IN SelectSeq(sourceErrorCodes,
               LAMBDA sourceCode :
                 \A i \in 1..Len(existingErrorCodes) :
                   existingErrorCodes[i].code # sourceCode.code)

InitBatch ==
  /\ batchSource \in BatchSourceFiles
  /\ \E n \in 0..MaxBatchFiles :
       batchTargets \in
         {[i \in 1..n |-> [name |-> BatchFileNames[i], lines |-> lines[i]]] :
            lines \in [1..n -> BatchTargetFiles]}
  /\ batchPc = "idle"
  /\ fileIndex = 0 /\ keyIndex = 0 /\ batchMissing = <<>> /\ batchCount = 0
  /\ outstanding = {} /\ answers = {} /\ events = <<>>
  /\ organizeUnused /\ diffUnused /\ parseUnused /\ translateUnused
  /\ backupUnused /\ translatorUnused /\ panelUnused /\ addUnused
  /\ configUnused /\ pureUnused

batchFrame ==
  UNCHANGED <<organizeVars, diffVars, parseVars, translateVars, backupVars,
              translatorVars, panelVars, addVars, configVars, pureVars, batchSource,
              batchTargets>>

\* handleStartTranslate up to its for loop; a missing source file throws
\* and the outer catch posts the failed translateResult
startTranslate(sourceExists) ==
  /\ batchPc = "idle"
  /\ IF sourceExists
     THEN /\ batchPc' = "files" /\ fileIndex' = 1
          /\ events' = events
     ELSE /\ batchPc' = "done" /\ fileIndex' = fileIndex
          /\ Post(Event("translateResult", "failed", <<>>))
  /\ UNCHANGED <<keyIndex, batchMissing, batchCount, outstanding, answers>>
  /\ batchFrame

handleStartTranslate == \E sourceExists \in BOOLEAN : startTranslate(sourceExists)

\* the top of the for loop: post the start message, call translateFile,
\* which runs to its first await or returns at once
translateFileBegins(readFails) ==
  /\ batchPc = "files"
  /\ fileIndex <= Len(batchTargets)
  /\ LET missing == missingOf(parseErrorCodes(batchSource),
                              batchTargets[fileIndex].lines)
     IN /\ Post(Event("start", batchFileName, <<>>))
        /\ batchCount' = 0
        /\ IF readFails \/ missing = <<>>
           THEN /\ batchPc' = IF readFails THEN "returnFailed" ELSE "return"
                /\ batchMissing' = <<>>
                /\ keyIndex' = 0
           ELSE /\ batchPc' = "issue"
                /\ batchMissing' = missing
                /\ keyIndex' = 1
  /\ UNCHANGED <<fileIndex, outstanding, answers>>
  /\ batchFrame

startFile == \E readFails \in BOOLEAN : translateFileBegins(readFails)

\* the call of translateWithFallback for every missing key at once
issueRequest_allAtOnce ==
  /\ batchPc = "issue"
  /\ outstanding' = outstanding \cup
       {batchMissing[i].code : i \in keyIndex..Len(batchMissing)}
  /\ events' = events \o
       [i \in 1..(Len(batchMissing) - keyIndex + 1) |->
          Event("request", batchFileName, batchMissing[keyIndex + i - 1].code)]
  /\ batchPc' = "await"
  /\ UNCHANGED <<fileIndex, keyIndex, batchMissing, batchCount, answers>>
  /\ batchFrame

\* the call of translateWithFallback for the missing key the loop is at
issueRequest ==
  /\ batchPc = "issue"
  /\ outstanding' = outstanding \cup {batchMissing[keyIndex].code}
  /\ Post(Event("request", batchFileName, batchMissing[keyIndex].code))
  /\ batchPc' = "await"
  /\ UNCHANGED <<fileIndex, keyIndex, batchMissing, batchCount, answers>>
  /\ batchFrame

\* the translation service answers a request: a text, no text, or a throw
requestSettles ==
  /\ \E code \in outstanding : \E outcome \in Outcomes :
       /\ outstanding' = outstanding \ {code}
       /\ answers' = answers \cup {[code |-> code, outcome |-> outcome]}
  /\ UNCHANGED <<batchPc, fileIndex, keyIndex, batchMissing, batchCount,
                 events>>
  /\ batchFrame

\* translateFile goes on after the await: it counts the translation or
\* the error, posts the progress message and moves to the next key
translationReturns ==
  /\ batchPc = "await"
  /\ \E answer \in answers :
       /\ answer.code = batchMissing[keyIndex].code
       /\ answers' = answers \ {answer}
       /\ IF answer.outcome = "text"
          THEN /\ batchCount' = batchCount + 1
               /\ Post(Event("success", batchFileName, answer.code))
          ELSE /\ batchCount' = batchCount
               /\ Post(Event("error", batchFileName, answer.code))
  /\ IF keyIndex < Len(batchMissing)
     THEN keyIndex' = keyIndex + 1 /\ batchPc' = "issue"
     ELSE keyIndex' = keyIndex /\ batchPc' = "return"
  /\ UNCHANGED <<fileIndex, batchMissing, outstanding>>
  /\ batchFrame

\* a file that failed ends the batch without a word to the panel
translateFileEnds_givingUp(writeFails) ==
  /\ batchPc \in {"return", "returnFailed"}
  /\ (writeFails => batchCount > 0)
  /\ IF writeFails \/ batchPc = "returnFailed"
     THEN batchPc' = "stopped" /\ events' = events
     ELSE batchPc' = "files"
          /\ Post(Event("fileComplete", batchFileName,
                        <<[success |-> TRUE, translated |-> batchCount]>>))
  /\ fileIndex' = fileIndex + 1
  /\ keyIndex' = 0 /\ batchMissing' = <<>> /\ batchCount' = 0
  /\ UNCHANGED <<outstanding, answers>>
  /\ batchFrame

\* translateFile writes the target when something was translated and
\* returns, a failed write as a failed result; handleStartTranslate posts
\* fileComplete and goes to the next file
translateFileEnds(writeFails) ==
  /\ batchPc \in {"return", "returnFailed"}
  /\ (writeFails => batchCount > 0)
  /\ LET failure == writeFails \/ batchPc = "returnFailed"
     IN Post(Event("fileComplete", batchFileName,
                   <<[success |-> ~failure,
                      translated |-> IF failure THEN 0 ELSE batchCount]>>))
  /\ batchPc' = "files"
  /\ fileIndex' = fileIndex + 1
  /\ keyIndex' = 0 /\ batchMissing' = <<>> /\ batchCount' = 0
  /\ UNCHANGED <<outstanding, answers>>
  /\ batchFrame

finishFile == \E writeFails \in BOOLEAN : translateFileEnds(writeFails)

\* after the for loop: the translateResult of the whole batch
finishBatch ==
  /\ batchPc = "files"
  /\ fileIndex > Len(batchTargets)
  /\ Post(Event("translateResult", "results", <<>>))
  /\ batchPc' = "done"
  /\ UNCHANGED <<fileIndex, keyIndex, batchMissing, batchCount, outstanding,
                 answers>>
  /\ batchFrame

NextBatch ==
  \/ handleStartTranslate
  \/ startFile
  \/ issueRequest
  \/ requestSettles
  \/ translationReturns
  \/ finishFile
  \/ finishBatch

SpecBatch == InitBatch /\ [][NextBatch]_vars


\* the positions of the log that hold a request for a key of that file
requestsOf(file) ==
  SelectSeq(events, LAMBDA e : e.kind = "request" /\ e.file = file)

\* the log holds a progress message for that key between two positions
progressBetween(file, code, from, to) ==
  \E k \in (from + 1)..(to - 1) :
    /\ events[k].kind \in {"success", "error"}
    /\ events[k].file = file
    /\ events[k].code = code

\* C21: within a batch the translation requests are strictly sequential:
\* at most one request is outstanding at any time, the requests of a file
\* are issued in the source order of its missing keys, and the progress
\* message (success or error) of a key is posted before the request for
\* the next key is issued.
C21_RequestsSequential ==
  /\ Cardinality(outstanding) + Cardinality(answers) <= 1
  /\ \A t \in DOMAIN batchTargets :
       LET issued == requestsOf(batchTargets[t].name)
           missing == missingOf(parseErrorCodes(batchSource),
                                batchTargets[t].lines)
       IN /\ Len(issued) <= Len(missing)
          /\ \A i \in 1..Len(issued) : issued[i].code = missing[i].code
  /\ \A p \in DOMAIN events : \A q \in DOMAIN events :
       (p < q /\ events[p].kind = "request" /\ events[q].kind = "request")
         => progressBetween(events[p].file, events[p].code, p, q)

\* a finished batch that asked for two keys of one file, the first of
\* which failed and the second of which was translated
C21_Witness ==
  /\ batchPc = "done"
  /\ \E p \in DOMAIN events : \E q \in DOMAIN events :
       /\ p < q
       /\ events[p].kind = "error"
       /\ events[q].kind = "success"
       /\ events[p].file = events[q].file
       /\ events[p].code # events[q].code


\* the batch under the scheduling of the extension host: the event loop
\* runs every continuation that is ready, and every request to the
\* translation service is answered or fails in the end
SpecBatchFair ==
  /\ InitBatch
  /\ [][NextBatch]_vars
  /\ WF_vars(startFile)
  /\ WF_vars(issueRequest)
  /\ WF_vars(translationReturns)
  /\ WF_vars(finishFile)
  /\ WF_vars(finishBatch)
  /\ WF_vars(requestSettles)

\* how many messages of that kind the panel got about that file
posted(kind, file) ==
  Cardinality({k \in DOMAIN events :
                 events[k].kind = kind /\ events[k].file = file})

\* the messages of a batch up to its translateResult: one start and, after
\* it, one fileComplete for every target file
everyFileReported ==
  /\ posted("translateResult", "results") = 1
  /\ events[Len(events)].kind = "translateResult"
  /\ \A t \in DOMAIN batchTargets :
       LET file == batchTargets[t].name
       IN /\ posted("start", file) = 1
          /\ posted("fileComplete", file) = 1
          /\ \E p \in DOMAIN events : \E q \in DOMAIN events :
               /\ p < q
               /\ events[p] = Event("start", file, <<>>)
               /\ events[q].kind = "fileComplete" /\ events[q].file = file

\* C22: once a batch translate has started it runs to completion: when
\* every translation request is answered or fails in the end,
\* handleStartTranslate posts exactly one translateResult in the end,
\* and, before it, exactly one start and one fileComplete message for
\* every target file of the batch, skipping none.
C22_RunsToCompletion ==
  /\ (batchPc # "idle") ~> (batchPc = "done")
  /\ [](posted("translateResult", "results")
          + posted("translateResult", "failed") <= 1)
  /\ []((batchPc = "done" /\ posted("translateResult", "failed") = 0)
          => everyFileReported)

\* a finished batch of two files, one of which had a translation that
\* threw and the other nothing to translate
C22_Witness ==
  /\ batchPc = "done"
  /\ Len(batchTargets) = 2
  /\ everyFileReported
  /\ \E k \in DOMAIN events : events[k].kind = "error"
  /\ \E k \in DOMAIN events :
       /\ events[k].kind = "fileComplete"
       /\ k > 1 /\ events[k - 1].kind = "start"


-----------------------------------------------------------------------------
(* The target-batch handlers of src/src/commands/errorCode/fileOrganize.ts
   under the settings errorCodeSourceFile and errorCodeExecFile *)

\* the .js files of the error-code directory, by base name, in the order
\* fs.readdirSync lists them: en.js, fr.js, zh-CN.js
ErrCodeDir == << <<"en">>, <<"fr">>, ErrorCodeSourceBase >>
ErrCodeFiles == {ErrCodeDir[i] : i \in DOMAIN ErrCodeDir}

\* errorCodeExecFile: 'all', or a comma-separated list of file names
ExecFileSettings ==
  {<<"all">>, << <<"en">>, <<"fr">> >>, << ErrorCodeSourceBase, <<"fr">> >>}

\* getTargetFiles(sourceDir, sourceFile, execFile)
getTargetFilesOf(d, sourceFileName, execFile) ==
  IF execFile = <<"all">>
  THEN SelectSeq(ErrCodeDir, LAMBDA file : file # sourceFileName)
  ELSE SelectSeq(execFile, LAMBDA fileName : fileName \in DOMAIN d)

\* the backups a batch writes, one per file, under the timestamp t
RECURSIVE copyTargets(_, _, _, _)
copyTargets(targetFiles, d, dir, t) ==
  IF targetFiles = <<>> THEN dir
  ELSE copyTargets(Tail(targetFiles), d,
                   (BackupName(targetFiles[1], t) :> d[targetFiles[1]]) @@ dir,
                   t)

\* handleOrganizeTargetFiles with the configured source and exec files
organizeConfiguredTargets(faults) ==
  LET targetFiles ==
        getTargetFilesOf(files, errorCodeSourceFile, errorCodeExecFile)
      needing ==
        SelectSeq(targetFiles,
                  LAMBDA f : {file \in DOMAIN backups : isBackupOf(file, f)} = {})
      copied == copyBackups(needing, files, backups, now, faults)
      organized == organizeLoop(targetFiles, files, <<>>, faults)
  IN /\ reply = <<>>
     /\ backupDirExists' = TRUE
     /\ backups' = copied.dir
     /\ files' = IF copied.thrown THEN files ELSE organized.files
     /\ reply' = IF copied.thrown
                 THEN [command |-> "organizeResult", success |-> FALSE]
                 ELSE [command |-> "organizeResult", success |-> TRUE,
                       results |-> organized.results]
     /\ UNCHANGED <<now, lastBackupFile, configVars>>
     /\ UNCHANGED <<organizeVars, diffVars, parseVars, translateVars,
                    translatorVars, panelVars, addVars, batchVars, pureVars>>

handleOrganizeConfiguredTargets ==
  \E faults \in [ErrCodeFiles -> Faults] : organizeConfiguredTargets(faults)

\* handleBackupTarget: getTargetFiles(sourceDir, 'zh-CN.js', execFile)
backupTarget(copyFails) ==
  LET targetFiles ==
        getTargetFilesOf(files, ErrorCodeSourceBase, errorCodeExecFile)
  IN /\ reply = <<>>
     /\ backupDirExists' = TRUE
     /\ backups' = IF copyFails THEN backups
                   ELSE copyTargets(targetFiles, files, backups, now)
     /\ reply' = [command |-> "backupTargetResult", success |-> ~copyFails]
     /\ UNCHANGED <<files, now, lastBackupFile, configVars>>
     /\ UNCHANGED <<organizeVars, diffVars, parseVars, translateVars,
                    translatorVars, panelVars, addVars, batchVars, pureVars>>

handleBackupConfiguredTargets == \E copyFails \in BOOLEAN : backupTarget(copyFails)

\* handleRestoreTarget(panel, backupFile):
\* getTargetFiles(sourceDir, 'zh-CN.js', execFile), then copyFileSync of
\* the one backup over each of them; failing: the copies that throw
restoreConfiguredTargets(backupFile, failing) ==
  LET targetFiles ==
        getTargetFilesOf(files, ErrorCodeSourceBase, errorCodeExecFile)
      restored == {targetFiles[i] : i \in DOMAIN targetFiles} \ failing
  IN /\ reply = <<>>
     /\ files' = [f \in DOMAIN files |->
                    IF backupFile \in DOMAIN backups /\ f \in restored
                    THEN backups[backupFile] ELSE files[f]]
     /\ reply' =
          [command |-> "restoreTargetResult", success |-> TRUE,
           results |->
             [i \in DOMAIN targetFiles |->
                restoreResult(targetFiles[i],
                              IF backupFile \in DOMAIN backups
                              THEN backupFile ELSE <<>>,
                              targetFiles[i] \in failing)]]
     /\ UNCHANGED <<backupDirExists, backups, now, lastBackupFile, configVars>>
     /\ UNCHANGED <<organizeVars, diffVars, parseVars, translateVars,
                    translatorVars, panelVars, addVars, batchVars, pureVars>>

\* message.backupFile: a name of the list of backups the panel shows
TargetBackupNames == {BackupName(f, 1) : f \in ErrCodeFiles}

handleRestoreConfiguredTargets ==
  \E backupFile \in TargetBackupNames : \E failing \in SUBSET ErrCodeFiles :
    restoreConfiguredTargets(backupFile, failing)

panelOfTargetsReceivesReply ==
  /\ reply # <<>>
  /\ reply' = <<>>
  /\ UNCHANGED <<files, backupDirExists, backups, now, lastBackupFile,
                 configVars>>
  /\ UNCHANGED <<organizeVars, diffVars, parseVars, translateVars,
                 translatorVars, panelVars, addVars, batchVars, pureVars>>

InitTargetBatch ==
  /\ files \in [ErrCodeFiles -> Contents]
  /\ errorCodeSourceFile \in {ErrorCodeSourceBase, <<"en">>}
  /\ errorCodeExecFile \in ExecFileSettings
  /\ backupDirExists = FALSE
  /\ backups = <<>>
  /\ now = 1
  /\ lastBackupFile = <<>>
  /\ reply = <<>>
  /\ organizeUnused /\ diffUnused /\ parseUnused /\ translateUnused
  /\ translatorUnused /\ panelUnused /\ addUnused /\ batchUnused
  /\ pureUnused

NextTargetBatch ==
  \/ panelOfTargetsReceivesReply
  \/ handleOrganizeConfiguredTargets
  \/ handleBackupConfiguredTargets
  \/ handleRestoreConfiguredTargets

SpecTargetBatch == InitTargetBatch /\ [][NextTargetBatch]_vars

\* the file a backup was taken from, by the name of the backup
takenFrom(backupFile, f) == \E t \in 1..MaxClock : backupFile = BackupName(f, t)

\* C23: restoreTarget with a chosen backup file changes only the target
\* file whose base name the backup was taken from; every other target file
\* keeps its content.
C23_RestoreOnlyItsOwnFile ==
  [][\A backupFile \in TargetBackupNames :
       (reply' # <<>> /\ reply'.command = "restoreTargetResult"
          /\ \E failing \in SUBSET ErrCodeFiles :
               restoreConfiguredTargets(backupFile, failing))
         => \A f \in ErrCodeFiles :
              files'[f] # files[f] => takenFrom(backupFile, f)]_vars

\* C24: the target-batch operations (organizeTargetFiles, backupTarget,
\* restoreTarget) never modify the configured source file, whatever source
\* file name and exec-file selector are configured.
C24_SourceFileUntouched ==
  [][files'[errorCodeSourceFile] = files[errorCodeSourceFile]]_vars


-----------------------------------------------------------------------------
(* The writers of string values: formatTranslationFile and
   organizeTargetFile of src/unnamed/part_000, and the line that
   updateTargetFileWithLineNumber of
   src/src/commands/translate/batchTranslateConfig.ts inserts.
   A text is the sequence of its characters. *)

MaxValueLen == 3

Quote == "\""
\* the character that delimits a template literal
Backtick == "backtick"
Chars == {"a", Quote, ":"}
Values == UNION {[1..n -> Chars] : n \in 0..MaxValueLen}

\* value.includes('"')
includesQuote(value) == \E i \in DOMAIN value : value[i] = Quote

\* value.replace(/"/g, '\\"')
RECURSIVE escapeQuotes(_)
escapeQuotes(value) ==
  IF value = <<>> THEN <<>>
  ELSE (IF value[1] = Quote THEN <<"\\", Quote>> ELSE <<value[1]>>)
         \o escapeQuotes(Tail(value))

\* how a value stands in the file before formatTranslationFile: in single
\* quotes, with or without the comma of the line, or in double quotes with
\* its quotes escaped
Styles == {"'v',", "'v'", "\"v\","}
written(value, style) ==
  IF style = "'v',"
  THEN <<"'">> \o value \o <<"'", ",">>
  ELSE IF style = "'v'" THEN <<"'">> \o value \o <<"'">>
  ELSE <<Quote>> \o escapeQuotes(value) \o <<Quote, ",">>

\* the value part of a `key: value` line as formatTranslationFile rewrites
\* it; a line that does not split into two parts at ':' is left as it is
formatValue(text) ==
  LET n == Len(text)
      inner(fromEnd) == SubSeq(text, 2, n - fromEnd)
      quoted(v) == IF includesQuote(v) THEN <<Backtick>> \o v \o <<Backtick>>
                   ELSE <<Quote>> \o v \o <<Quote>>
  IN IF \E i \in DOMAIN text : text[i] = ":" THEN text
     ELSE IF n >= 3 /\ text[1] = "'" /\ text[n - 1] = "'" /\ text[n] = ","
       THEN quoted(inner(2)) \o <<",">>
     ELSE IF n >= 2 /\ text[1] = "'" /\ text[n] = "'"
       THEN quoted(inner(1))
     ELSE text

\* formattedValue of organizeTargetFile, with the comma of the line
organizeTargetValue(targetValue, isLast) ==
  (IF includesQuote(targetValue)
   THEN <<Quote>> \o escapeQuotes(targetValue) \o <<Quote>>
   ELSE <<Quote>> \o targetValue \o <<Quote>>)
    \o (IF isLast THEN <<>> ELSE <<",">>)

\* the value part of insertLine: `"${translatedItem.value}",`
insertLineValue(value) == <<Quote>> \o value \o <<Quote, ",">>

InitSerialize ==
  /\ serialized = <<>>
  /\ rebuildSource = <<>> /\ rebuildTarget = <<>> /\ rebuilt = <<>>
  /\ organizeUnused /\ diffUnused /\ parseUnused /\ translateUnused
  /\ backupUnused /\ translatorUnused /\ panelUnused /\ addUnused
  /\ batchUnused /\ configUnused

serializeFrame ==
  UNCHANGED <<organizeVars, diffVars, parseVars, translateVars, backupVars,
              translatorVars, panelVars, addVars, batchVars, configVars,
              rebuildSource, rebuildTarget, rebuilt>>

FormatTranslationFile ==
  /\ serialized = <<>>
  /\ \E value \in Values : \E style \in Styles :
       serialized' = [by |-> "formatTranslationFile", value |-> value,
                      text |-> formatValue(written(value, style))]
  /\ serializeFrame

OrganizeTargetFile ==
  /\ serialized = <<>>
  /\ \E targetValue \in Values : \E isLast \in BOOLEAN :
       serialized' = [by |-> "organizeTargetFile", value |-> targetValue,
                      text |-> organizeTargetValue(targetValue, isLast)]
  /\ serializeFrame

InsertTranslatedLine ==
  /\ serialized = <<>>
  /\ \E value \in Values :
       serialized' = [by |-> "updateTargetFileWithLineNumber",
                      value |-> value, text |-> insertLineValue(value)]
  /\ serializeFrame

NextSerialize ==
  \/ FormatTranslationFile
  \/ OrganizeTargetFile
  \/ InsertTranslatedLine

SpecSerialize == InitSerialize /\ [][NextSerialize]_vars

\* the literal of a written value, without the comma of the line
literal(text) ==
  IF text # <<>> /\ text[Len(text)] = "," THEN SubSeq(text, 1, Len(text) - 1)
  ELSE text

\* C27: every serialization path writes a string value that contains a
\* double quote wrapped in backticks, never escaping the quote or leaving
\* it inside a double-quoted literal: formatTranslationFile, the
\* full-rebuild organizeTargetFile and the line inserted by translate.
C27_QuotedValuesInBackticks ==
  (serialized # <<>> /\ includesQuote(serialized.value))
    => literal(serialized.text) = <<Backtick>> \o serialized.value \o <<Backtick>>


-----------------------------------------------------------------------------
(* organizeTargetFile of src/src/commands/errorCode/fileOrganize.ts: the
   target file rebuilt along the organized source *)

MaxRebuildSource == 3
MaxRebuildTarget == 2

\* the comment '  // 错误码' (error codes) of the section parseSections
\* makes up for codes that stand under no comment
DefaultSectionLine == SectionLine(<<"//", "cuowuma">>)

\* a line of the target file: the code with its translated message
TargetCodeLine(c) == InsertLine(c, translatedText(<<>>))

RebuildSources ==
  {<<DeclLine>> \o body \o <<CloseLine>> :
     body \in {<<>>} \cup
       FilesUpTo({SectionLine(SysComment), SectionLine(VipComment)}
                   \cup {CodeLine(c) : c \in Codes}, MaxRebuildSource)}

RebuildTargets ==
  {<<DeclLine>> \o body \o <<CloseLine>> :
     body \in {<<>>} \cup
       FilesUpTo({SectionLine(SysComment)}
                   \cup {TargetCodeLine(c) : c \in Codes}, MaxRebuildTarget)}

\* one turn of the loop of parseSections
parseSectionsLine(st, line) ==
  CASE line.kind = "close" -> [st EXCEPT !.endBracket = <<line>>]
    [] line.kind = "section" ->
         [st EXCEPT
            !.sections = IF st.currentSection # <<>>
                         THEN Append(@, [comment |-> st.currentSection[1],
                                         errorCodes |-> st.currentErrorCodes])
                         ELSE @,
            !.currentSection = <<line>>,
            !.currentErrorCodes = <<>>]
    [] line.kind = "code" ->
         [st EXCEPT
            !.currentSection = IF @ = <<>> THEN <<DefaultSectionLine>> ELSE @,
            !.currentErrorCodes =
              Append(IF st.currentSection = <<>> THEN <<>> ELSE @,
                     [code |-> line.code, line |-> line])]
    [] OTHER ->
         IF st.currentSection = <<>>
         THEN [st EXCEPT !.sections =
                 Append(@, [comment |-> line, errorCodes |-> <<>>])]
         ELSE st

RECURSIVE parseSectionsFrom(_, _, _)
parseSectionsFrom(lines, i, st) ==
  IF i > Len(lines) THEN st
  ELSE parseSectionsFrom(lines, i + 1, parseSectionsLine(st, lines[i]))

parseSections(lines) ==
  LET st == parseSectionsFrom(lines, 1,
              [sections |-> <<>>, currentSection |-> <<>>,
               currentErrorCodes |-> <<>>, endBracket |-> <<>>])
      withLast == IF st.currentSection # <<>>
                  THEN Append(st.sections,
                              [comment |-> st.currentSection[1],
                               errorCodes |-> st.currentErrorCodes])
                  ELSE st.sections
  IN IF st.endBracket # <<>>
     THEN Append(withLast, [comment |-> st.endBracket[1], errorCodes |-> <<>>])
     ELSE withLast

\* the error codes of all sections, in file order
RECURSIVE allErrorCodes(_)
allErrorCodes(sections) ==
  IF sections = <<>> THEN <<>>
  ELSE sections[1].errorCodes \o allErrorCodes(Tail(sections))

\* targetErrorCodes.get(code): the line the Map holds for a code is the
\* last one set; <<>> when it holds none
targetLineOf(targetSections, code) ==
  LET all == allErrorCodes(targetSections)
      hits == {i \in DOMAIN all : all[i].code = code}
  IN IF hits = {} THEN <<>>
     ELSE <<all[CHOOSE i \in hits : \A j \in hits : j <= i].line>>

\* the lines rebuildTargetFile pushes for one section of the source
rebuildSection(sourceSection, targetSections) ==
  LET found == [i \in DOMAIN sourceSection.errorCodes |->
                  targetLineOf(targetSections,
                               sourceSection.errorCodes[i].code)]
      kept == SelectSeq(found, LAMBDA targetLine : targetLine # <<>>)
  IN <<sourceSection.comment>> \o [i \in DOMAIN kept |-> kept[i][1]]

RECURSIVE rebuildTargetFile(_, _)
rebuildTargetFile(sourceSections, targetSections) ==
  IF sourceSections = <<>> THEN <<>>
  ELSE rebuildSection(sourceSections[1], targetSections)
         \o rebuildTargetFile(Tail(sourceSections), targetSections)

organizeErrorCodeTarget(targetLines, sourceLines) ==
  LET organizedSource == organizeSourceFile(sourceLines)
      sourceSections == parseSections(organizedSource)
      targetSections == parseSections(targetLines)
  IN join(rebuildTargetFile(sourceSections, targetSections))

InitRebuild ==
  /\ rebuildSource \in RebuildSources
  /\ rebuildTarget \in RebuildTargets
  /\ rebuilt = <<>>
  /\ serialized = <<>>
  /\ organizeUnused /\ diffUnused /\ parseUnused /\ translateUnused
  /\ backupUnused /\ translatorUnused /\ panelUnused /\ addUnused
  /\ batchUnused /\ configUnused

\* organizeTargetFile(content, sourceContent), once
OrganizeErrorCodeTarget ==
  /\ rebuilt = <<>>
  /\ rebuilt' = <<organizeErrorCodeTarget(rebuildTarget, rebuildSource)>>
  /\ UNCHANGED <<rebuildSource, rebuildTarget, serialized>>
  /\ UNCHANGED <<organizeVars, diffVars, parseVars, translateVars, backupVars,
                 translatorVars, panelVars, addVars, batchVars, configVars>>

NextRebuild == OrganizeErrorCodeTarget

SpecRebuild == InitRebuild /\ [][NextRebuild]_vars

\* the codes of the error-code lines of a file, in file order
codeSeq(lines) ==
  LET codeLines == SelectSeq(lines, LAMBDA line : line.kind = "code")
  IN [i \in DOMAIN codeLines |-> codeLines[i].code]
codeSet(lines) ==
  {lines[i].code : i \in {j \in DOMAIN lines : lines[j].kind = "code"}}

\* the lines of a file that are no error-code lines
frame(lines) == SelectSeq(lines, LAMBDA line : line.kind # "code")

\* C28: organizing an error-code target file yields exactly the codes
\* present in both the target and the source: each of them once, with its
\* original target line text; codes absent from the source are dropped,
\* codes absent from the target are not added, and the order and the
\* section comments follow the organized source.
C28_TargetFollowsSource ==
  rebuilt # <<>> =>
    LET out == rebuilt[1]
        organizedSource == organizeSourceFile(rebuildSource)
        both == codeSet(rebuildTarget) \cap codeSet(rebuildSource)
    IN /\ codeSet(out) = both
       /\ \A c \in both :
            Cardinality({i \in DOMAIN out :
                           out[i].kind = "code" /\ out[i].code = c}) = 1
       /\ \A i \in DOMAIN out :
            out[i].kind = "code"
              => \E j \in DOMAIN rebuildTarget : rebuildTarget[j] = out[i]
       /\ codeSeq(out)
            = SelectSeq(codeSeq(organizedSource), LAMBDA c : c \in both)
       /\ frame(out) = frame(organizedSource)

=============================================================================
